---- MODULE Spec2Model ----
(***************************************************************************)
(* Realtime presence / room routing / chat relay of the virtual office     *)
(* backend (Socket.IO server).                                             *)
(*                                                                         *)
(* Two generations of the socket module are present in the sources:        *)
(*   - backend/src/socket.ts: synchronous handlers over a module-level     *)
(*     presence Map (specification Spec; chat part: SpecChat);             *)
(*   - the presence-store generation (routes/auth.ts:115-329 together with *)
(*     presence.ts): async handlers that await the presence store          *)
(*     (specifications SpecStore, SpecStoreLeft; SpecFallback with a Redis *)
(*     server that becomes unreachable).                                   *)
(* Further specifications of socket.ts: SpecDm (DM path), SpecClip (chat   *)
(* content), SpecGate (handshake), SpecMalformed (payload validation).     *)
(* The client scene (frontend/src/game/OfficeScene.ts) is SpecScene.       *)
(* SpecClamp (positions stored by socket.ts), SpecDmJoin (join_dm and      *)
(* leave_dm rooms), SpecOrder (move updates of the presence-store          *)
(* generation per connection), SpecMedia (POST /rooms of routes/media.ts)  *)
(* and SpecRoster (the roster of frontend/src/pages/Office.tsx).           *)
(***************************************************************************)
EXTENDS Integers, Sequences, FiniteSets, TLC

\* ------------------------------------------------------------------ bounds
\* handlers of the presence-store generation suspended at an await
MaxInflight == 1
\* chat_message handlers suspended at a database await
MaxChat == 1
\* rows the chatMessage table can take in a run
MaxMsgs == 1
\* move events a connection sends in a run of SpecOrder, and the handlers
\* suspended at a time there
MaxMoves == 2
\* POST /media/rooms requests being handled at a time
MaxMedia == 2

\* ------------------------------------------------------------- value sets
Conns == {"c1", "c2", "c3"}
StoreConns == {"c1", "c2"}
Users == {"u1", "u2"}
SpaceIds == {"A", "B"}
Orgs == {"o1", "o2"}
Undefined == "undefined"
NoUser == "nouser"

\* A payload field that should be a number / a string: the value, or a value
\* of another type (typeof check fails).
Num(v) == [isNum |-> TRUE, v |-> v]
NotNum == [isNum |-> FALSE, v |-> 0]
Str(s) == [isStr |-> TRUE, s |-> s]
NotStr == [isStr |-> FALSE, s |-> ""]
\* A string whose characters matter: a sequence of one-character strings.
Text(s) == [isStr |-> TRUE, s |-> s]
NotText == [isStr |-> FALSE, s |-> <<>>]

RECURSIVE TrimLeft(_)
TrimLeft(s) == IF s # <<>> /\ Head(s) = " " THEN TrimLeft(Tail(s)) ELSE s
RECURSIVE TrimRight(_)
TrimRight(s) ==
    IF s # <<>> /\ s[Len(s)] = " " THEN TrimRight(SubSeq(s, 1, Len(s) - 1)) ELSE s
\* String.prototype.trim
Trim(s) == TrimRight(TrimLeft(s))

\* ------------------------------------------------------------------ state
VARIABLES
    status,          \* per socket: "pending" | "connected" | "rejected" | "closed"
    userId,          \* per socket: the userId bound by the connection handler
    rooms,           \* per socket: the Socket.IO rooms it is in
    currentSpaceId,  \* per socket: the ad hoc socket.currentSpaceId field
    presence,        \* spaceId -> socketId -> PresenceUser (entries exist or not)
    inflight,        \* presence-store generation: FIFO of suspended handlers
    chatq,           \* chat_message handlers suspended at a database await
    messages,        \* rows of the chatMessage table, in creation order
    members,         \* rows of the orgMembership table: org -> set of users
    out,             \* what the last step emitted, in order
    step,            \* the handler (part) the last step ran, and its outcome
    leftCount,       \* history: user_left deliveries per (socket, space) since
                     \* the socket's last join of that space, saturating at 2
    raced,           \* history: per socket, the space whose leave_space handler
                     \* was suspended when the socket's disconnect handler
                     \* started for that same space
    moveLog,         \* history: per socket, the updates of the moves it sent and
                     \* the updates its user_moved events carried, in order
    redisUp,         \* presence store: the Redis server answers commands
    IN_MEMORY,       \* presence store: the process-local map of presence.ts
    selfTileX,       \* client scene (OfficeScene.ts): the player's tile column
    selfTileY,       \* client scene: the player's tile row
    lastZoneId,      \* client scene: the zone id stored by the last zone check
    teleported,      \* client scene: the start-up teleportSelf call has run
    zoneOut,         \* client scene: the onZoneChange calls of the last tick
    detected,        \* history: the zone id the previous zone check detected
    lastEvent,       \* history: the zone id of the last onZoneChange call
    meetingCache,    \* routes/media.ts: roomKey -> meetingId
    dyteMeetings,    \* the meetings the video provider has created, in order:
                     \* the room key each was created for
    mediaq,          \* POST /media/rooms handlers suspended at an await
    mediaRes,        \* the responses sent: status, room key and meetingId
    others           \* client (pages/Office.tsx): per socket, the socket ids
                     \* of the other players it holds

vars == <<status, userId, rooms, currentSpaceId, presence, inflight, chatq,
          messages, members, out, step, leftCount, raced, moveLog, redisUp, IN_MEMORY,
          selfTileX, selfTileY, lastZoneId, teleported, zoneOut, detected, lastEvent,
          meetingCache, dyteMeetings, mediaq, mediaRes, others>>

serverVars == <<status, userId, rooms, currentSpaceId, presence, inflight, chatq,
                messages, members, out, step, leftCount, raced, moveLog, redisUp,
                IN_MEMORY>>
fallbackVars == <<redisUp, IN_MEMORY>>
sceneVars == <<selfTileX, selfTileY, lastZoneId, teleported, zoneOut, detected, lastEvent>>
mediaVars == <<meetingCache, dyteMeetings, mediaq, mediaRes>>

chatVars == <<chatq, messages, members>>
hist == <<leftCount, raced>>

\* --------------------------------------------------------------- helpers
SpaceRoom(spaceId) == "space:" \o spaceId
DmRoom(channel) == "dm:" \o channel

\* socket.to(room): every socket in the room except the sender
ToRoomExcept(rms, room, c) == {d \in Conns : room \in rms[d]} \ {c}
\* io.to(room): every socket in the room
ToRoom(rms, room) == {d \in Conns : room \in rms[d]}
\* socket.emit: the socket itself (a closed socket receives nothing)
ToSelf(st, c) == IF st[c] = "connected" THEN {c} ELSE {}

Emit(ev, from, to, space, body) ==
    [ev |-> ev, from |-> from, to |-> to, space |-> space, body |-> body]

Ran(op, c, space, res) == [op |-> op, c |-> c, space |-> space, res |-> res]

\* connections holding a presence record in a space
Members(pres, spaceId) ==
    IF spaceId \in DOMAIN pres THEN DOMAIN pres[spaceId] ELSE {}

\* getOrCreateSpace: the presence map with an entry for spaceId
getOrCreateSpace(pres, spaceId) ==
    IF spaceId \in DOMAIN pres
    THEN pres
    ELSE [s \in DOMAIN pres \cup {spaceId} |->
            IF s = spaceId THEN [d \in {} |-> 0] ELSE pres[s]]

\* space.set(socket.id, data) on the entry of spaceId
SpaceSet(pres, spaceId, c, data) ==
    LET p == getOrCreateSpace(pres, spaceId)
    IN  [p EXCEPT ![spaceId] =
            [d \in DOMAIN p[spaceId] \cup {c} |-> IF d = c THEN data ELSE p[spaceId][d]]]

\* (mutant) the records of the socket's user are deleted, not only its own
SpaceDelete_ByUser(pres, spaceId, c) ==
    IF c \notin Members(pres, spaceId)
    THEN pres
    ELSE LET rest == {d \in DOMAIN pres[spaceId] :
                        pres[spaceId][d].userId # pres[spaceId][c].userId}
         IN  IF rest = {}
             THEN [s \in DOMAIN pres \ {spaceId} |-> pres[s]]
             ELSE [pres EXCEPT ![spaceId] = [d \in rest |-> pres[spaceId][d]]]
\* space.delete(socket.id); if (space.size === 0) presence.delete(spaceId)
SpaceDelete(pres, spaceId, c) ==
    IF spaceId \notin DOMAIN pres
    THEN pres
    ELSE LET rest == DOMAIN pres[spaceId] \ {c}
         IN  IF rest = {}
             THEN [s \in DOMAIN pres \ {spaceId} |-> pres[s]]
             ELSE [pres EXCEPT ![spaceId] = [d \in rest |-> pres[spaceId][d]]]

\* getSpaceUsers: the roster of a space, socketId -> record
getSpaceUsers(pres, spaceId) ==
    IF spaceId \in DOMAIN pres THEN pres[spaceId] ELSE [d \in {} |-> 0]

\* history of user_left deliveries, from what a step emitted
CountLeft(o, c, spaceId) ==
    Cardinality({i \in DOMAIN o :
        o[i].ev = "user_left" /\ o[i].from = c /\ o[i].space = spaceId /\ o[i].to # {}})
\* the step started (socket.ts: ran) a join of the space for the socket
Joined(st, c, spaceId) ==
    st.op = "join_space" /\ st.c = c /\ st.space = spaceId /\ st.res \in {"ok", "await"}
Sat2(n) == IF n > 2 THEN 2 ELSE n
NextLeftCount(st, o) ==
    [c \in Conns |-> [s \in SpaceIds |->
        IF Joined(st, c, s) THEN 0 ELSE Sat2(leftCount[c][s] + CountLeft(o, c, s))]]
\* a leave_space handler of the socket for the space is suspended
LeaveSuspended(c, spaceId) ==
    \E i \in DOMAIN inflight :
        inflight[i].pc = "leave_rm" /\ inflight[i].c = c /\ inflight[i].spaceId = spaceId
NextRaced(st) ==
    [c \in Conns |->
        IF st.op = "disconnect" /\ st.c = c /\ st.res = "await"
           /\ LeaveSuspended(c, st.space)
        THEN st.space ELSE raced[c]]
NoHistory == UNCHANGED <<hist, moveLog>>
\* the handlers of socket.ts do not use the presence store
NoFallback == UNCHANGED fallbackVars
\* a server step leaves the client scene alone
NoScene == UNCHANGED sceneVars
\* a socket step leaves the media route alone
NoMedia == UNCHANGED mediaVars
\* the step is taken without the clients' rosters being looked at
NoRoster == UNCHANGED others
History ==
    /\ leftCount' = NextLeftCount(step', out')
    /\ raced' = NextRaced(step')
    /\ UNCHANGED moveLog
\* the moves sent and the user_moved events emitted, from what a step did
NextMoveLog(st, o, q) ==
    [c \in Conns |->
        IF st.c = c /\ st.op = "move" /\ st.res = "await"
        THEN [moveLog[c] EXCEPT !.sent = Append(@, q[Len(q)].data)]
        ELSE IF st.c = c /\ st.op = "move" /\ st.res = "emitted"
        THEN [moveLog[c] EXCEPT !.emitted =
                Append(@, [x |-> o[1].body.x, y |-> o[1].body.y, z |-> o[1].body.z,
                           direction |-> o[1].body.direction])]
        ELSE moveLog[c]]
MoveHistory ==
    /\ moveLog' = NextMoveLog(step', out', inflight')
    /\ UNCHANGED hist

\* ------------------------------------------------------------------- Init
Init ==
    /\ status = [c \in Conns |-> "pending"]
    /\ userId = [c \in Conns |-> NoUser]
    /\ rooms = [c \in Conns |-> {}]
    /\ currentSpaceId = [c \in Conns |-> Undefined]
    /\ presence = [s \in {} |-> 0]
    /\ inflight = <<>>
    /\ chatq = {}
    /\ messages = <<>>
    /\ members = [o \in Orgs |-> IF o = "o1" THEN {"u1"} ELSE {"u2"}]
    /\ out = <<>>
    /\ step = Ran("init", "c1", Undefined, "ok")
    /\ leftCount = [c \in Conns |-> [s \in SpaceIds |-> 0]]
    /\ raced = [c \in Conns |-> Undefined]
    /\ moveLog = [c \in Conns |-> [sent |-> <<>>, emitted |-> <<>>]]
    /\ redisUp = TRUE
    /\ IN_MEMORY = [s \in {} |-> 0]
    /\ selfTileX = 8
    /\ selfTileY = 15
    /\ lastZoneId = "null"
    /\ teleported = FALSE
    /\ zoneOut = <<>>
    /\ detected = "null"
    /\ lastEvent = "none"
    /\ meetingCache = [k \in {} |-> ""]
    /\ dyteMeetings = <<>>
    /\ mediaq = {}
    /\ mediaRes = {}
    /\ others = [c \in Conns |-> {}]

\* --------------------------------------------------- connection handshake
\* jwt.verify(token, JWT_SECRET): the userId of a valid token
Tokens == {"missing", "forged"} \cup Users
\* the account each client is logged in to
UserOf(c) == IF c = "c2" THEN "u2" ELSE "u1"
ClientTokens(c) == {"missing", "forged", UserOf(c)}
TokenOk(token) == token \in Users

\* io.on("connection"): token check and userId binding
Connect(c, token) ==
    /\ status[c] = "pending"
    /\ IF TokenOk(token)
       THEN /\ status' = [status EXCEPT ![c] = "connected"]
            /\ userId' = [userId EXCEPT ![c] = token]
       ELSE /\ status' = [status EXCEPT ![c] = "rejected"]
            /\ UNCHANGED userId
    /\ out' = <<>>
    /\ step' = Ran("connection", c, Undefined, IF TokenOk(token) THEN "ok" ELSE "rejected")
    /\ UNCHANGED <<rooms, currentSpaceId, presence, inflight, chatVars>>

\* (mutant) the connection handler goes on after socket.disconnect(true)
Listening_Rejected(c) == status[c] \in {"connected", "rejected"}
\* the socket's listeners exist (the connection handler got past the token
\* check, where it returns otherwise) and the socket is connected
Listening(c) == status[c] = "connected"

\* ------------------------------------------- socket.ts: presence handlers
\* the defaults the handlers apply to a payload
PayloadName(p) ==
    IF p.displayName.isStr /\ Trim(p.displayName.s) # <<>>
    THEN Trim(p.displayName.s) ELSE <<"U", "s", "e", "r">>
PayloadNum(f) == IF f.isNum THEN f.v ELSE 0
PayloadDir(p) == IF p.direction.isStr THEN p.direction.s ELSE "down"
ValidSpaceId(p) == p.spaceId.isStr /\ p.spaceId.s # ""

\* a userId field a client adds to its payloads
Spoof == "u2"
\* (mutant) the handlers take the user id from the payload
Sender_Payload(c, p) == p.userId
\* the user id the handlers put in records, events and rows: the userId bound
\* by the connection handler (closure variable and socket.userId)
Sender(c, p) == userId[c]

PresenceUser(c, p, x, z) ==
    [userId |-> Sender(c, p), displayName |-> PayloadName(p), x |-> x,
     y |-> PayloadNum(p.y), z |-> z, direction |-> PayloadDir(p), avatar |-> p.avatar]

\* socket.on("join_space")
MemJoinSpace(c, p) ==
    /\ Listening(c)
    /\ IF ~ValidSpaceId(p)
       THEN /\ out' = <<>>
            /\ step' = Ran("join_space", c, Undefined, "dropped")
            /\ UNCHANGED <<rooms, presence, currentSpaceId>>
       ELSE LET spaceId == p.spaceId.s
                room == SpaceRoom(spaceId)
                data == PresenceUser(c, p, PayloadNum(p.x), PayloadNum(p.z))
            IN  /\ rooms' = [rooms EXCEPT ![c] = @ \cup {room}]
                /\ presence' = SpaceSet(presence, spaceId, c, data)
                /\ currentSpaceId' = [currentSpaceId EXCEPT ![c] = spaceId]
                /\ out' = << Emit("space_state", c, ToSelf(status, c), spaceId,
                                  getSpaceUsers(presence', spaceId)),
                             Emit("user_joined", c, ToRoomExcept(rooms', room, c),
                                  spaceId, data) >>
                /\ step' = Ran("join_space", c, spaceId, "ok")
    /\ UNCHANGED <<status, userId, inflight, chatVars>>

\* socket.on("leave_space"): payload?.spaceId ?? socket.currentSpaceId
LeaveTarget(c, spaceIdField) ==
    IF spaceIdField = Undefined THEN currentSpaceId[c] ELSE spaceIdField

MemLeaveSpace(c, spaceIdField) ==
    /\ Listening(c)
    /\ LET spaceId == LeaveTarget(c, spaceIdField)
           room == SpaceRoom(spaceId)
       IN  IF spaceId = Undefined \/ spaceId = ""
           THEN /\ out' = <<>>
                /\ step' = Ran("leave_space", c, Undefined, "dropped")
                /\ UNCHANGED <<rooms, presence, currentSpaceId>>
           ELSE /\ rooms' = [rooms EXCEPT ![c] = @ \ {room}]
                /\ presence' = SpaceDelete(presence, spaceId, c)
                /\ currentSpaceId' = [currentSpaceId EXCEPT ![c] = Undefined]
                /\ out' = << Emit("user_left", c, ToRoomExcept(rooms', room, c),
                                  spaceId, userId[c]) >>
                /\ step' = Ran("leave_space", c, spaceId, "ok")
    /\ UNCHANGED <<status, userId, inflight, chatVars>>

\* existing.x = x; ... on the record of socket.id, when there is one
MemUpdate(pres, spaceId, c, x, y, z, direction) ==
    LET p == getOrCreateSpace(pres, spaceId)
    IN  IF c \in DOMAIN p[spaceId]
        THEN [p EXCEPT ![spaceId][c] =
                [@ EXCEPT !.x = x, !.y = y, !.z = z, !.direction = direction]]
        ELSE p

\* socket.on("move")
MemMove(c, p) ==
    /\ Listening(c)
    /\ IF ~ValidSpaceId(p)
       THEN /\ out' = <<>>
            /\ step' = Ran("move", c, Undefined, "dropped")
            /\ UNCHANGED presence
       ELSE LET spaceId == p.spaceId.s
                x == PayloadNum(p.x)
                y == PayloadNum(p.y)
                z == PayloadNum(p.z)
                direction == PayloadDir(p)
            IN  /\ presence' = MemUpdate(presence, spaceId, c, x, y, z, direction)
                /\ out' = << Emit("user_moved", c,
                                  ToRoomExcept(rooms, SpaceRoom(spaceId), c), spaceId,
                                  [userId |-> Sender(c, p), x |-> x, y |-> y, z |-> z,
                                   direction |-> direction]) >>
                /\ step' = Ran("move", c, spaceId,
                               IF c \in Members(presence, spaceId) THEN "ok" ELSE "nomember")
    /\ UNCHANGED <<status, userId, rooms, currentSpaceId, inflight, chatVars>>

\* transport close: Socket.IO takes the socket out of every room, then runs
\* socket.on("disconnect")
MemDisconnect(c) ==
    /\ status[c] = "connected"
    /\ status' = [status EXCEPT ![c] = "closed"]
    /\ rooms' = [rooms EXCEPT ![c] = {}]
    /\ LET spaceId == currentSpaceId[c]
       IN  IF spaceId = Undefined
           THEN /\ out' = <<>>
                /\ UNCHANGED presence
           ELSE /\ presence' = SpaceDelete(presence, spaceId, c)
                /\ out' = << Emit("user_left", c,
                                  ToRoomExcept(rooms', SpaceRoom(spaceId), c),
                                  spaceId, userId[c]) >>
    /\ step' = Ran("disconnect", c, currentSpaceId[c], "ok")
    /\ UNCHANGED <<userId, currentSpaceId, inflight, chatVars>>

\* ------------------------------------------------------- client payloads
Name1 == <<"A", "n", "n">>
JoinPayloads ==
    { [userId |-> Spoof, spaceId |-> s, displayName |-> Text(Name1), x |-> Num(0), y |-> Num(0),
       z |-> Num(0), direction |-> Str("down"), avatar |-> "none"] :
         s \in {Str(i) : i \in SpaceIds} \cup {NotStr} }
MovePayloads ==
    { [userId |-> Spoof, spaceId |-> s, x |-> Num(1), y |-> Num(0), z |-> Num(0),
       direction |-> Str("right")] :
         s \in {Str(i) : i \in SpaceIds} \cup {NotStr} }
LeavePayloads == SpaceIds \cup {Undefined}

\* ----------------------------------------------------------- socket.ts
Next ==
    \/ \E c \in Conns : \E t \in ClientTokens(c) : Connect(c, t) /\ NoHistory /\ NoScene /\ NoMedia /\ NoRoster /\ NoFallback
    \/ \E c \in Conns, p \in JoinPayloads : MemJoinSpace(c, p) /\ NoHistory /\ NoScene /\ NoMedia /\ NoRoster /\ NoFallback
    \/ \E c \in Conns, s \in LeavePayloads : MemLeaveSpace(c, s) /\ NoHistory /\ NoScene /\ NoMedia /\ NoRoster /\ NoFallback
    \/ \E c \in Conns, p \in MovePayloads : MemMove(c, p) /\ NoHistory /\ NoScene /\ NoMedia /\ NoRoster /\ NoFallback
    \/ \E c \in Conns : MemDisconnect(c) /\ NoHistory /\ NoScene /\ NoMedia /\ NoRoster /\ NoFallback

Spec == Init /\ [][Next]_vars

\* socket.ts with two sockets, recording the user_left history
NextLeft ==
    \/ \E c \in StoreConns : \E t \in ClientTokens(c) : Connect(c, t) /\ History /\ NoScene /\ NoMedia /\ NoRoster /\ NoFallback
    \/ \E c \in StoreConns, p \in JoinPayloads : MemJoinSpace(c, p) /\ History /\ NoScene /\ NoMedia /\ NoRoster /\ NoFallback
    \/ \E c \in StoreConns, s \in LeavePayloads : MemLeaveSpace(c, s) /\ History /\ NoScene /\ NoMedia /\ NoRoster /\ NoFallback
    \/ \E c \in StoreConns, p \in MovePayloads : MemMove(c, p) /\ History /\ NoScene /\ NoMedia /\ NoRoster /\ NoFallback
    \/ \E c \in StoreConns : MemDisconnect(c) /\ History /\ NoScene /\ NoMedia /\ NoRoster /\ NoFallback

SpecLeft == Init /\ [][NextLeft]_vars

\* ------------------------------------ presence store (presence.ts), Redis
\* The store is the Redis hash presence:space:<spaceId> (REDIS_URL set, the
\* server reachable).  One ioredis connection carries every command, so the
\* commands of this process take effect in the order they are issued and
\* their replies resume the awaiting handlers in that same order: a command
\* is applied to `presence` when it is issued, and `inflight` is the FIFO of
\* handlers waiting for a reply.
JSONstringify(data) == <<"json", data>>
JSONparse(json) == json[2]

\* client.hset(redisKey(spaceId), socketId, JSON.stringify(data))
setUserInSpace(pres, spaceId, c, data) == SpaceSet(pres, spaceId, c, JSONstringify(data))
\* client.hdel(redisKey(spaceId), socketId)
removeUserFromSpace(pres, spaceId, c) == SpaceDelete(pres, spaceId, c)
\* client.hgetall(redisKey(spaceId)), each value parsed
storeGetSpaceUsers(pres, spaceId) ==
    LET raw == getSpaceUsers(pres, spaceId)
    IN  [d \in DOMAIN raw |-> JSONparse(raw[d])]
\* the catch branch of setUserInSpace: the record goes to the local map
memSet(mem, spaceId, c, data) == SpaceSet(mem, spaceId, c, data)
\* the catch branch of removeUserFromSpace: if (space) space.delete(socketId)
memDelete(mem, spaceId, c) ==
    IF spaceId \notin DOMAIN mem
    THEN mem
    ELSE [mem EXCEPT ![spaceId] = [d \in DOMAIN mem[spaceId] \ {c} |-> mem[spaceId][d]]]
\* the catch branch of getSpaceUsers: return []
NoUsers == [d \in {} |-> 0]
\* client.hget(key, socketId): the JSON text, or null
Null == <<"null">>
\* the command was rejected (the catch branch runs)
Failed == <<"error">>
hget(pres, spaceId, c) ==
    IF c \in Members(pres, spaceId) THEN pres[spaceId][c] ELSE Null

\* movement bounds, in tenths of a floor unit (FLOOR_HALF = 17.5)
FLOOR_HALF == 175
Max(a, b) == IF a > b THEN a ELSE b
Min(a, b) == IF a < b THEN a ELSE b
clampPosition(x, z) ==
    [x |-> Max(-FLOOR_HALF, Min(FLOOR_HALF, x)),
     z |-> Max(-FLOOR_HALF, Min(FLOOR_HALF, z))]

Waiting(pc, c, spaceId, data, res) ==
    [pc |-> pc, c |-> c, spaceId |-> spaceId, data |-> data, res |-> res]

HasRoom == Len(inflight) < MaxInflight

\* socket.on("join_space") up to `await setUserInSpace(...)`
StoreJoinSpace(c, p) ==
    /\ Listening(c)
    /\ HasRoom
    /\ out' = <<>>
    /\ IF ~ValidSpaceId(p)
       THEN /\ step' = Ran("join_space", c, Undefined, "dropped")
            /\ UNCHANGED <<rooms, presence, inflight, IN_MEMORY>>
       ELSE LET spaceId == p.spaceId.s
                clamped == clampPosition(PayloadNum(p.x), PayloadNum(p.z))
                data == PresenceUser(c, p, clamped.x, clamped.z)
            IN  /\ rooms' = [rooms EXCEPT ![c] = @ \cup {SpaceRoom(spaceId)}]
                /\ IF redisUp
                   THEN /\ presence' = setUserInSpace(presence, spaceId, c, data)
                        /\ UNCHANGED IN_MEMORY
                   ELSE /\ IN_MEMORY' = memSet(IN_MEMORY, spaceId, c, data)
                        /\ UNCHANGED presence
                /\ inflight' = Append(inflight, Waiting("join_set", c, spaceId, data, Null))
                /\ step' = Ran("join_space", c, spaceId, "await")
    /\ UNCHANGED <<status, userId, currentSpaceId, chatVars, redisUp>>

\* join_space resumed after setUserInSpace, up to `await getSpaceUsers(...)`
StoreJoinSet ==
    /\ inflight # <<>>
    /\ Head(inflight).pc = "join_set"
    /\ LET h == Head(inflight)
       IN  /\ currentSpaceId' = [currentSpaceId EXCEPT ![h.c] = h.spaceId]
           /\ inflight' = Append(Tail(inflight),
                  [h EXCEPT !.pc = "join_list",
                            !.res = IF redisUp
                                    THEN storeGetSpaceUsers(presence, h.spaceId)
                                    ELSE NoUsers])
           /\ step' = Ran("join_space", h.c, h.spaceId, "await2")
    /\ out' = <<>>
    /\ UNCHANGED <<status, userId, rooms, presence, chatVars, fallbackVars>>

\* join_space resumed after getSpaceUsers: space_state and user_joined
StoreJoinList ==
    /\ inflight # <<>>
    /\ Head(inflight).pc = "join_list"
    /\ LET h == Head(inflight)
       IN  /\ out' = << Emit("space_state", h.c, ToSelf(status, h.c), h.spaceId, h.res),
                        Emit("user_joined", h.c,
                             ToRoomExcept(rooms, SpaceRoom(h.spaceId), h.c),
                             h.spaceId, h.data) >>
           /\ step' = Ran("join_space", h.c, h.spaceId, "emitted")
    /\ inflight' = Tail(inflight)
    /\ UNCHANGED <<status, userId, rooms, currentSpaceId, presence, chatVars, fallbackVars>>

\* socket.on("leave_space") up to `await removeUserFromSpace(...)`
StoreLeaveSpace(c, spaceIdField) ==
    /\ Listening(c)
    /\ HasRoom
    /\ out' = <<>>
    /\ LET spaceId == LeaveTarget(c, spaceIdField)
       IN  IF spaceId = Undefined \/ spaceId = ""
           THEN /\ step' = Ran("leave_space", c, Undefined, "dropped")
                /\ UNCHANGED <<rooms, presence, inflight, IN_MEMORY>>
           ELSE /\ rooms' = [rooms EXCEPT ![c] = @ \ {SpaceRoom(spaceId)}]
                /\ IF redisUp
                   THEN /\ presence' = removeUserFromSpace(presence, spaceId, c)
                        /\ UNCHANGED IN_MEMORY
                   ELSE /\ IN_MEMORY' = memDelete(IN_MEMORY, spaceId, c)
                        /\ UNCHANGED presence
                /\ inflight' = Append(inflight, Waiting("leave_rm", c, spaceId, Null, Null))
                /\ step' = Ran("leave_space", c, spaceId, "await")
    /\ UNCHANGED <<status, userId, currentSpaceId, chatVars, redisUp>>

\* leave_space resumed after removeUserFromSpace
StoreLeaveRemoved ==
    /\ inflight # <<>>
    /\ Head(inflight).pc = "leave_rm"
    /\ LET h == Head(inflight)
       IN  /\ currentSpaceId' = [currentSpaceId EXCEPT ![h.c] = Undefined]
           /\ out' = << Emit("user_left", h.c,
                             ToRoomExcept(rooms, SpaceRoom(h.spaceId), h.c),
                             h.spaceId, userId[h.c]) >>
           /\ step' = Ran("leave_space", h.c, h.spaceId, "emitted")
    /\ inflight' = Tail(inflight)
    /\ UNCHANGED <<status, userId, rooms, presence, chatVars, fallbackVars>>

\* (mutant) the reply to a later command resumes its handler first
Enqueue_First(q, h) == <<h>> \o q
\* the handler waits for its reply behind the handlers whose commands were
\* issued before (one connection to Redis, replies in command order)
Enqueue(q, h) == Append(q, h)

\* socket.on("move") up to the hget of updateUserPosition
StoreMoveStart(c, p) ==
    /\ Listening(c)
    /\ out' = <<>>
    /\ IF ~ValidSpaceId(p)
       THEN /\ step' = Ran("move", c, Undefined, "dropped")
            /\ UNCHANGED inflight
       ELSE LET spaceId == p.spaceId.s
                clamped == clampPosition(PayloadNum(p.x), PayloadNum(p.z))
                update == [x |-> clamped.x, y |-> PayloadNum(p.y), z |-> clamped.z,
                           direction |-> PayloadDir(p)]
            IN  /\ inflight' = Enqueue(inflight,
                       Waiting("move_hget", c, spaceId, update,
                               IF redisUp THEN hget(presence, spaceId, c) ELSE Failed))
                /\ step' = Ran("move", c, spaceId, "await")
    /\ UNCHANGED <<status, userId, rooms, currentSpaceId, presence, chatVars, fallbackVars>>

StoreMove(c, p) == HasRoom /\ StoreMoveStart(c, p)

\* { ...data, ...update }
Merge(data, update) ==
    [data EXCEPT !.x = update.x, !.y = update.y, !.z = update.z,
                 !.direction = update.direction]

\* updateUserPosition resumed after hget: null (no record, or the command
\* failed, or the hset fails), or the hset of the merged record
StoreMoveGot ==
    /\ inflight # <<>>
    /\ Head(inflight).pc = "move_hget"
    /\ LET h == Head(inflight)
       IN  IF h.res \in {Null, Failed} \/ ~redisUp
           THEN /\ inflight' = Tail(inflight)
                /\ step' = Ran("move", h.c, h.spaceId,
                               IF h.res = Null THEN "notfound" ELSE "failed")
                /\ UNCHANGED presence
           ELSE LET next == Merge(JSONparse(h.res), h.data)
                IN  /\ presence' = setUserInSpace(presence, h.spaceId, h.c, next)
                    /\ inflight' = Append(Tail(inflight),
                                          [h EXCEPT !.pc = "move_hset", !.res = next])
                    /\ step' = Ran("move", h.c, h.spaceId, "await2")
    /\ out' = <<>>
    /\ UNCHANGED <<status, userId, rooms, currentSpaceId, chatVars, fallbackVars>>

\* move resumed after updateUserPosition returned the record: user_moved
StoreMoveUpdated ==
    /\ inflight # <<>>
    /\ Head(inflight).pc = "move_hset"
    /\ LET h == Head(inflight)
       IN  /\ out' = << Emit("user_moved", h.c,
                             ToRoomExcept(rooms, SpaceRoom(h.spaceId), h.c), h.spaceId,
                             [userId |-> userId[h.c], x |-> h.data.x, y |-> h.data.y,
                              z |-> h.data.z, direction |-> h.data.direction]) >>
           /\ step' = Ran("move", h.c, h.spaceId, "emitted")
    /\ inflight' = Tail(inflight)
    /\ UNCHANGED <<status, userId, rooms, currentSpaceId, presence, chatVars, fallbackVars>>

\* transport close, then socket.on("disconnect") up to
\* `await removeUserFromSpace(...)`; it takes no slot away from other handlers
StoreDisconnect(c) ==
    /\ status[c] = "connected"
    /\ status' = [status EXCEPT ![c] = "closed"]
    /\ rooms' = [rooms EXCEPT ![c] = {}]
    /\ out' = <<>>
    /\ LET spaceId == currentSpaceId[c]
       IN  IF spaceId = Undefined
           THEN /\ step' = Ran("disconnect", c, Undefined, "ok")
                /\ UNCHANGED <<presence, inflight, IN_MEMORY>>
           ELSE /\ IF redisUp
                   THEN /\ presence' = removeUserFromSpace(presence, spaceId, c)
                        /\ UNCHANGED IN_MEMORY
                   ELSE /\ IN_MEMORY' = memDelete(IN_MEMORY, spaceId, c)
                        /\ UNCHANGED presence
                /\ inflight' = Append(inflight, Waiting("disc_rm", c, spaceId, Null, Null))
                /\ step' = Ran("disconnect", c, spaceId, "await")
    /\ UNCHANGED <<userId, currentSpaceId, chatVars, redisUp>>

\* disconnect resumed after removeUserFromSpace
StoreDisconnectRemoved ==
    /\ inflight # <<>>
    /\ Head(inflight).pc = "disc_rm"
    /\ LET h == Head(inflight)
       IN  /\ out' = << Emit("user_left", h.c,
                             ToRoomExcept(rooms, SpaceRoom(h.spaceId), h.c),
                             h.spaceId, userId[h.c]) >>
           /\ step' = Ran("disconnect", h.c, h.spaceId, "emitted")
    /\ inflight' = Tail(inflight)
    /\ UNCHANGED <<status, userId, rooms, currentSpaceId, presence, chatVars, fallbackVars>>

StoreJoinPayloads ==
    { [userId |-> Spoof, spaceId |-> s, displayName |-> Text(Name1), x |-> Num(0), y |-> Num(0),
       z |-> Num(0), direction |-> Str("down"), avatar |-> "none"] :
         s \in {Str(i) : i \in SpaceIds} \cup {NotStr} }
StoreMovePayloads ==
    { [userId |-> Spoof, spaceId |-> s, x |-> Num(300), y |-> Num(0), z |-> Num(10),
       direction |-> Str("right")] :
         s \in {Str(i) : i \in SpaceIds} \cup {NotStr} }

NextStore ==
    \/ \E c \in StoreConns : \E t \in ClientTokens(c) : Connect(c, t) /\ NoHistory /\ NoScene /\ NoMedia /\ NoRoster /\ NoFallback
    \/ \E c \in StoreConns, p \in StoreJoinPayloads : StoreJoinSpace(c, p) /\ NoHistory /\ NoScene /\ NoMedia /\ NoRoster
    \/ StoreJoinSet /\ NoHistory /\ NoScene /\ NoMedia /\ NoRoster
    \/ StoreJoinList /\ NoHistory /\ NoScene /\ NoMedia /\ NoRoster
    \/ \E c \in StoreConns, s \in LeavePayloads : StoreLeaveSpace(c, s) /\ NoHistory /\ NoScene /\ NoMedia /\ NoRoster
    \/ StoreLeaveRemoved /\ NoHistory /\ NoScene /\ NoMedia /\ NoRoster
    \/ \E c \in StoreConns, p \in StoreMovePayloads : StoreMove(c, p) /\ NoHistory /\ NoScene /\ NoMedia /\ NoRoster
    \/ StoreMoveGot /\ NoHistory /\ NoScene /\ NoMedia /\ NoRoster
    \/ StoreMoveUpdated /\ NoHistory /\ NoScene /\ NoMedia /\ NoRoster
    \/ \E c \in StoreConns : StoreDisconnect(c) /\ NoHistory /\ NoScene /\ NoMedia /\ NoRoster
    \/ StoreDisconnectRemoved /\ NoHistory /\ NoScene /\ NoMedia /\ NoRoster

SpecStore == Init /\ [][NextStore]_vars

\* joins, leaves and disconnects of the presence-store generation, recording
\* the user_left history
NextStoreLeft ==
    \/ \E c \in StoreConns : \E t \in ClientTokens(c) : Connect(c, t) /\ History /\ NoScene /\ NoMedia /\ NoRoster /\ NoFallback
    \/ \E c \in StoreConns, p \in StoreJoinPayloads : StoreJoinSpace(c, p) /\ History /\ NoScene /\ NoMedia /\ NoRoster
    \/ StoreJoinSet /\ History /\ NoScene /\ NoMedia /\ NoRoster
    \/ StoreJoinList /\ History /\ NoScene /\ NoMedia /\ NoRoster
    \/ \E c \in StoreConns, s \in LeavePayloads : StoreLeaveSpace(c, s) /\ History /\ NoScene /\ NoMedia /\ NoRoster
    \/ StoreLeaveRemoved /\ History /\ NoScene /\ NoMedia /\ NoRoster
    \/ \E c \in StoreConns : StoreDisconnect(c) /\ History /\ NoScene /\ NoMedia /\ NoRoster
    \/ StoreDisconnectRemoved /\ History /\ NoScene /\ NoMedia /\ NoRoster

SpecStoreLeft == Init /\ [][NextStoreLeft]_vars

\* the Redis server stops answering: from now on every command of the
\* client (created from REDIS_URL, maxRetriesPerRequest 3) is rejected
RedisFails ==
    /\ redisUp
    /\ redisUp' = FALSE
    /\ out' = <<>>
    /\ step' = Ran("redis_down", "c1", Undefined, "ok")
    /\ UNCHANGED <<status, userId, rooms, currentSpaceId, presence, inflight, chatVars,
                   IN_MEMORY>>

FallbackJoinPayloads == {p \in StoreJoinPayloads : p.spaceId = Str("A")}
FallbackMovePayloads == {p \in StoreMovePayloads : p.spaceId = Str("A")}

\* the presence-store generation with a Redis server that can become
\* unreachable
NextFallback ==
    \/ \E c \in StoreConns : \E t \in ClientTokens(c) : Connect(c, t) /\ NoHistory /\ NoScene /\ NoMedia /\ NoRoster /\ NoFallback
    \/ \E c \in StoreConns, p \in FallbackJoinPayloads : StoreJoinSpace(c, p) /\ NoHistory /\ NoScene /\ NoMedia /\ NoRoster
    \/ StoreJoinSet /\ NoHistory /\ NoScene /\ NoMedia /\ NoRoster
    \/ StoreJoinList /\ NoHistory /\ NoScene /\ NoMedia /\ NoRoster
    \/ \E c \in StoreConns, p \in FallbackMovePayloads : StoreMove(c, p) /\ NoHistory /\ NoScene /\ NoMedia /\ NoRoster
    \/ StoreMoveGot /\ NoHistory /\ NoScene /\ NoMedia /\ NoRoster
    \/ StoreMoveUpdated /\ NoHistory /\ NoScene /\ NoMedia /\ NoRoster
    \/ \E c \in StoreConns : StoreDisconnect(c) /\ NoHistory /\ NoScene /\ NoMedia /\ NoRoster
    \/ StoreDisconnectRemoved /\ NoHistory /\ NoScene /\ NoMedia /\ NoRoster
    \/ RedisFails /\ NoHistory /\ NoScene /\ NoMedia /\ NoRoster

SpecFallback == Init /\ [][NextFallback]_vars

\* ------------------------------------------------ socket.ts: DM and chat
\* [userId1, userId2].sort().join("_"); IdOrder lists the strings a client
\* can name in code-unit order
IdOrder == <<"A", "B", "X", "u1", "u1_u1", "u1_u2", "u2", "u2_u3", "u3">>
IdRank(u) == CHOOSE i \in DOMAIN IdOrder : IdOrder[i] = u
\* (mutant) the two ids are joined as given
dmChannelId_Unsorted(userId1, userId2) == userId1 \o "_" \o userId2
dmChannelId(userId1, userId2) ==
    IF IdRank(userId1) <= IdRank(userId2)
    THEN userId1 \o "_" \o userId2 ELSE userId2 \o "_" \o userId1

\* the ids of the rows of the user table; no client of the runs is logged in
\* as u3
UserIds == Users \cup {"u3"}

\* (mutant) the room is the one the client names
DmJoinRoom_Named(c, otherUserId) == DmRoom(otherUserId)
\* `dm:${dmChannelId(userId, otherUserId)}` with the userId bound to the socket
DmJoinRoom(c, otherUserId) == DmRoom(dmChannelId(userId[c], otherUserId))

\* socket.on("join_dm")
JoinDm(c, otherUserId) ==
    /\ Listening(c)
    /\ IF ~otherUserId.isStr \/ otherUserId.s = "" \/ otherUserId.s = userId[c]
       THEN /\ step' = Ran("join_dm", c, Undefined, "dropped")
            /\ UNCHANGED rooms
       ELSE /\ rooms' = [rooms EXCEPT ![c] = @ \cup {DmJoinRoom(c, otherUserId.s)}]
            /\ step' = Ran("join_dm", c, Undefined, "ok")
    /\ out' = <<>>
    /\ UNCHANGED <<status, userId, currentSpaceId, presence, inflight, chatVars>>

\* socket.on("leave_dm")
LeaveDm(c, otherUserId) ==
    /\ Listening(c)
    /\ IF ~otherUserId.isStr \/ otherUserId.s = ""
       THEN /\ step' = Ran("leave_dm", c, Undefined, "dropped")
            /\ UNCHANGED rooms
       ELSE /\ rooms' = [rooms EXCEPT ![c] = @ \ {DmJoinRoom(c, otherUserId.s)}]
            /\ step' = Ran("leave_dm", c, Undefined, "ok")
    /\ out' = <<>>
    /\ UNCHANGED <<status, userId, currentSpaceId, presence, inflight, chatVars>>

\* (mutant) the channel id of the payload is used as the DM channel
DmRoomId_Trusted(sender, channelId) == channelId
\* chat_message, DM branch: otherUserId = channelId;
\* roomId = dmChannelId(userId, otherUserId)
DmRoomId(sender, channelId) == dmChannelId(sender, channelId)

\* the space table (id -> organizationId) and the user table (id -> displayName)
SpaceOrg == [s \in SpaceIds |-> IF s = "A" THEN "o1" ELSE "o2"]
UserName == [u \in Users |-> IF u = "u1" THEN <<"A", "n", "n">> ELSE <<"B", "o">>]

\* prisma.space.findUnique({ where: { id } })
NoSpace == [id |-> "", organizationId |-> ""]
FindSpace(id) ==
    IF id \in DOMAIN SpaceOrg THEN [id |-> id, organizationId |-> SpaceOrg[id]] ELSE NoSpace
\* (mutant) the membership lookup always finds a row
IsOrgMember_Always(mem, u, org) == TRUE
\* prisma.orgMembership.findUnique({ where: { userId_organizationId } }) found a row
IsOrgMember(mem, u, org) == u \in mem[org]

MAX_CHAT_CONTENT_LENGTH == 2000
\* (mutant) the content is never cut
Clip_Whole(content) == content
\* content.slice(0, MAX_CHAT_CONTENT_LENGTH) when longer
Clip(content) ==
    IF Len(content) > MAX_CHAT_CONTENT_LENGTH
    THEN SubSeq(content, 1, MAX_CHAT_CONTENT_LENGTH) ELSE content

NoRow == [id |-> 0, channelType |-> "", channelId |-> "", senderUserId |-> "",
          content |-> <<>>, createdAt |-> 0]
\* a suspended chat_message handler: where it waits and what its closure holds
ChatWaiting(n, pc, c, payload, channelType, channelId, content, row) ==
    [n |-> n, pc |-> pc, c |-> c, payload |-> payload, channelType |-> channelType,
     channelId |-> channelId, content |-> content, row |-> row]

\* the invocations of the handler are told apart by a slot number
FreeSlot == CHOOSE n \in 1..MaxChat : \A h \in chatq : h.n # n

\* socket.on("chat_message") up to its first await
ChatMessage(c, p) ==
    /\ Listening(c)
    /\ Cardinality(chatq) < MaxChat
    /\ LET content == IF p.content.isStr THEN Trim(p.content.s) ELSE <<>>
       IN  IF p.channelType = "" \/ p.channelId = "" \/ content = <<>>
              \/ p.channelType \notin {"SPACE", "DM"}
           THEN /\ step' = Ran("chat_message", c, Undefined, "dropped")
                /\ UNCHANGED chatq
           ELSE /\ chatq' = chatq \cup
                      { ChatWaiting(FreeSlot,
                                    IF p.channelType = "SPACE" THEN "chat_space" ELSE "chat_create",
                                    c, p, p.channelType,
                                    IF p.channelType = "SPACE" THEN p.channelId
                                    ELSE DmRoomId(userId[c], p.channelId),
                                    Clip(content), NoRow) }
                /\ step' = Ran("chat_message", c, Undefined, "await")
    /\ out' = <<>>
    /\ UNCHANGED <<status, userId, rooms, currentSpaceId, presence, inflight, messages, members>>

\* SPACE branch resumed after prisma.space.findUnique
ChatSpaceFound(h) ==
    /\ h \in chatq
    /\ h.pc = "chat_space"
    /\ IF FindSpace(h.channelId) = NoSpace
       THEN /\ chatq' = chatq \ {h}
            /\ step' = Ran("chat_message", h.c, h.channelId, "nospace")
       ELSE /\ chatq' = (chatq \ {h}) \cup {[h EXCEPT !.pc = "chat_member"]}
            /\ step' = Ran("chat_message", h.c, h.channelId, "await2")
    /\ out' = <<>>
    /\ UNCHANGED <<status, userId, rooms, currentSpaceId, presence, inflight, messages, members>>

\* SPACE branch resumed after prisma.orgMembership.findUnique
ChatMemberChecked(h) ==
    /\ h \in chatq
    /\ h.pc = "chat_member"
    /\ IF ~IsOrgMember(members, userId[h.c], FindSpace(h.channelId).organizationId)
       THEN /\ chatq' = chatq \ {h}
            /\ step' = Ran("chat_message", h.c, h.channelId, "unauthorized")
       ELSE /\ chatq' = (chatq \ {h}) \cup {[h EXCEPT !.pc = "chat_create"]}
            /\ step' = Ran("chat_message", h.c, h.channelId, "await3")
    /\ out' = <<>>
    /\ UNCHANGED <<status, userId, rooms, currentSpaceId, presence, inflight, messages, members>>

\* (mutant) the insert is acknowledged but the row is not stored
Insert_Lost(table, row) == table
\* the INSERT of prisma.chatMessage.create
Insert(table, row) == Append(table, row)

\* prisma.chatMessage.create: the database inserts the row (id and createdAt
\* assigned) and includes the sender's displayName
ChatCreate(h) ==
    /\ h \in chatq
    /\ h.pc = "chat_create"
    /\ Len(messages) < MaxMsgs
    /\ LET row == [id |-> Len(messages) + 1, channelType |-> h.channelType,
                   channelId |-> h.channelId, senderUserId |-> Sender(h.c, h.payload),
                   content |-> h.content, createdAt |-> Len(messages) + 1]
       IN  /\ messages' = Insert(messages, row)
           /\ chatq' = (chatq \ {h}) \cup {[h EXCEPT !.pc = "chat_created", !.row = row]}
    /\ step' = Ran("chat_message", h.c, Undefined, "created")
    /\ out' = <<>>
    /\ UNCHANGED <<status, userId, rooms, currentSpaceId, presence, inflight, members>>

\* chat_message resumed after create: io.to(room).emit("chat_message", payloadOut)
ChatBroadcast(h) ==
    /\ h \in chatq
    /\ h.pc = "chat_created"
    /\ chatq' = chatq \ {h}
    /\ LET room == IF h.channelType = "SPACE" THEN SpaceRoom(h.channelId)
                   ELSE DmRoom(h.channelId)
       IN  out' = << Emit("chat_message", h.c, ToRoom(rooms, room), h.channelId,
                          [id |-> h.row.id, channelType |-> h.channelType,
                           channelId |-> h.row.channelId,
                           senderUserId |-> h.row.senderUserId,
                           senderDisplayName |-> UserName[h.row.senderUserId],
                           content |-> h.row.content, createdAt |-> h.row.createdAt]) >>
    /\ step' = Ran("chat_message", h.c, Undefined, "emitted")
    /\ UNCHANGED <<status, userId, rooms, currentSpaceId, presence, inflight, messages, members>>

\* a query of the handler rejects: catch (err) { console.error(err) }
ChatDbError(h) ==
    /\ h \in chatq
    /\ h.pc \in {"chat_space", "chat_member", "chat_create"}
    /\ chatq' = chatq \ {h}
    /\ step' = Ran("chat_message", h.c, Undefined, "error")
    /\ out' = <<>>
    /\ UNCHANGED <<status, userId, rooms, currentSpaceId, presence, inflight, messages, members>>

\* POST /organizations/join with the right password: the membership row
JoinOrganization(u, org) ==
    /\ u \notin members[org]
    /\ members' = [members EXCEPT ![org] = @ \cup {u}]
    /\ step' = Ran("org_join", "c1", Undefined, "ok")
    /\ out' = <<>>
    /\ UNCHANGED <<status, userId, rooms, currentSpaceId, presence, inflight, chatq, messages>>

Hi == <<"h", "i">>
\* SPACE messages to space A (organization o1) and to a space id that is in
\* no row; DMs to u2 and to oneself; and payloads the validation refuses
ChatPayloads ==
    { [userId |-> Spoof, channelType |-> "SPACE", channelId |-> ch, content |-> Text(Hi)] : ch \in {"A", "X"} }
    \cup { [userId |-> Spoof, channelType |-> "DM", channelId |-> ch, content |-> Text(Hi)] : ch \in {"u2"} }
    \cup { [userId |-> Spoof, channelType |-> "ROOM", channelId |-> "A", content |-> Text(Hi)],
           [userId |-> Spoof, channelType |-> "SPACE", channelId |-> "", content |-> Text(Hi)],
           [userId |-> Spoof, channelType |-> "SPACE", channelId |-> "A", content |-> Text(<<" ">>)],
           [userId |-> Spoof, channelType |-> "DM", channelId |-> "u2", content |-> NotText] }
DmPayloads == {Str("u1"), Str("u2"), NotStr}
ChatJoinPayloads ==
    { [userId |-> Spoof, spaceId |-> Str("A"), displayName |-> NotText, x |-> Num(0), y |-> Num(0),
       z |-> Num(0), direction |-> Str("down"), avatar |-> "none"] }

\* n times the character ch
Fill(n, ch) == [i \in 1..n |-> ch]
\* contents around the maximum length: padded short text; exactly the maximum;
\* only spaces; and 5000 characters, padded, whose trimmed form has a space as
\* its 2000th character
PaddedHi == <<" ">> \o Hi \o <<" ", " ">>
Longer == <<" ">> \o Fill(1999, "a") \o <<" ">> \o Fill(2998, "b") \o <<" ">>
ClipPayloads ==
    { [userId |-> Spoof, channelType |-> "DM", channelId |-> "u2", content |-> Text(t)] :
        t \in {PaddedHi, Fill(2000, "a"), Fill(2, " ")} }
    \cup { [userId |-> Spoof, channelType |-> "SPACE", channelId |-> "A", content |-> Text(Longer)] }

\* DM messages to the other user, to oneself, and with the canonical id of the
\* pair where the recipient is expected
DmChatPayloads ==
    { [userId |-> Spoof, channelType |-> "DM", channelId |-> ch, content |-> Text(Hi)] :
        ch \in {"u1", "u2", "u1_u2"} }

NextChat ==
    \/ \E c \in StoreConns : \E t \in ClientTokens(c) : Connect(c, t) /\ NoHistory /\ NoScene /\ NoMedia /\ NoRoster /\ NoFallback
    \/ \E c \in StoreConns, p \in ChatJoinPayloads : MemJoinSpace(c, p) /\ NoHistory /\ NoScene /\ NoMedia /\ NoRoster /\ NoFallback
    \/ \E c \in StoreConns, o \in DmPayloads : JoinDm(c, o) /\ NoHistory /\ NoScene /\ NoMedia /\ NoRoster /\ NoFallback
    \/ \E c \in StoreConns, p \in ChatPayloads : ChatMessage(c, p) /\ NoHistory /\ NoScene /\ NoMedia /\ NoRoster /\ NoFallback
    \/ \E h \in chatq : ChatSpaceFound(h) /\ NoHistory /\ NoScene /\ NoMedia /\ NoRoster /\ NoFallback
    \/ \E h \in chatq : ChatMemberChecked(h) /\ NoHistory /\ NoScene /\ NoMedia /\ NoRoster /\ NoFallback
    \/ \E h \in chatq : ChatCreate(h) /\ NoHistory /\ NoScene /\ NoMedia /\ NoRoster /\ NoFallback
    \/ \E h \in chatq : ChatBroadcast(h) /\ NoHistory /\ NoScene /\ NoMedia /\ NoRoster /\ NoFallback
    \/ \E h \in chatq : ChatDbError(h) /\ NoHistory /\ NoScene /\ NoMedia /\ NoRoster /\ NoFallback
    \/ \E u \in Users : JoinOrganization(u, "o1") /\ NoHistory /\ NoScene /\ NoMedia /\ NoRoster /\ NoFallback
    \/ \E c \in StoreConns : MemDisconnect(c) /\ NoHistory /\ NoScene /\ NoMedia /\ NoRoster /\ NoFallback

SpecChat == Init /\ [][NextChat]_vars

\* the content path of chat_message: one sender, contents around the maximum
NextClip ==
    \/ \E c \in StoreConns : \E t \in ClientTokens(c) : Connect(c, t) /\ NoHistory /\ NoScene /\ NoMedia /\ NoRoster /\ NoFallback
    \/ \E c \in StoreConns, o \in DmPayloads : JoinDm(c, o) /\ NoHistory /\ NoScene /\ NoMedia /\ NoRoster /\ NoFallback
    \/ \E p \in ClipPayloads : ChatMessage("c1", p) /\ NoHistory /\ NoScene /\ NoMedia /\ NoRoster /\ NoFallback
    \/ \E h \in chatq : ChatSpaceFound(h) /\ NoHistory /\ NoScene /\ NoMedia /\ NoRoster /\ NoFallback
    \/ \E h \in chatq : ChatMemberChecked(h) /\ NoHistory /\ NoScene /\ NoMedia /\ NoRoster /\ NoFallback
    \/ \E h \in chatq : ChatCreate(h) /\ NoHistory /\ NoScene /\ NoMedia /\ NoRoster /\ NoFallback
    \/ \E h \in chatq : ChatBroadcast(h) /\ NoHistory /\ NoScene /\ NoMedia /\ NoRoster /\ NoFallback

SpecClip == Init /\ [][NextClip]_vars

\* every kind of event of socket.ts, from clients with and without a valid token
GatePayloads ==
    { [userId |-> Spoof, channelType |-> "SPACE", channelId |-> "A", content |-> Text(Hi)],
      [userId |-> Spoof, channelType |-> "DM", channelId |-> "u2", content |-> Text(Hi)] }
GateMovePayloads ==
    { [userId |-> Spoof, spaceId |-> Str("A"), x |-> Num(1), y |-> Num(0), z |-> Num(0),
       direction |-> Str("right")] }
NextGate ==
    \/ \E c \in StoreConns : \E t \in ClientTokens(c) : Connect(c, t) /\ NoHistory /\ NoScene /\ NoMedia /\ NoRoster /\ NoFallback
    \/ \E c \in StoreConns, p \in ChatJoinPayloads : MemJoinSpace(c, p) /\ NoHistory /\ NoScene /\ NoMedia /\ NoRoster /\ NoFallback
    \/ \E c \in StoreConns, p \in GateMovePayloads : MemMove(c, p) /\ NoHistory /\ NoScene /\ NoMedia /\ NoRoster /\ NoFallback
    \/ \E c \in StoreConns, o \in DmPayloads : JoinDm(c, o) /\ NoHistory /\ NoScene /\ NoMedia /\ NoRoster /\ NoFallback
    \/ \E c \in StoreConns, p \in GatePayloads : ChatMessage(c, p) /\ NoHistory /\ NoScene /\ NoMedia /\ NoRoster /\ NoFallback
    \/ \E h \in chatq : ChatSpaceFound(h) /\ NoHistory /\ NoScene /\ NoMedia /\ NoRoster /\ NoFallback
    \/ \E h \in chatq : ChatMemberChecked(h) /\ NoHistory /\ NoScene /\ NoMedia /\ NoRoster /\ NoFallback
    \/ \E h \in chatq : ChatCreate(h) /\ NoHistory /\ NoScene /\ NoMedia /\ NoRoster /\ NoFallback
    \/ \E h \in chatq : ChatBroadcast(h) /\ NoHistory /\ NoScene /\ NoMedia /\ NoRoster /\ NoFallback
    \/ \E c \in StoreConns : MemDisconnect(c) /\ NoHistory /\ NoScene /\ NoMedia /\ NoRoster /\ NoFallback

SpecGate == Init /\ [][NextGate]_vars

\* the DM path of socket.ts: subscriptions and DM chat
NextDm ==
    \/ \E c \in StoreConns : \E t \in ClientTokens(c) : Connect(c, t) /\ NoHistory /\ NoScene /\ NoMedia /\ NoRoster /\ NoFallback
    \/ \E c \in StoreConns, o \in DmPayloads : JoinDm(c, o) /\ NoHistory /\ NoScene /\ NoMedia /\ NoRoster /\ NoFallback
    \/ \E c \in StoreConns, o \in DmPayloads : LeaveDm(c, o) /\ NoHistory /\ NoScene /\ NoMedia /\ NoRoster /\ NoFallback
    \/ \E c \in StoreConns, p \in DmChatPayloads : ChatMessage(c, p) /\ NoHistory /\ NoScene /\ NoMedia /\ NoRoster /\ NoFallback
    \/ \E h \in chatq : ChatCreate(h) /\ NoHistory /\ NoScene /\ NoMedia /\ NoRoster /\ NoFallback
    \/ \E h \in chatq : ChatBroadcast(h) /\ NoHistory /\ NoScene /\ NoMedia /\ NoRoster /\ NoFallback
    \/ \E h \in chatq : ChatDbError(h) /\ NoHistory /\ NoScene /\ NoMedia /\ NoRoster /\ NoFallback
    \/ \E c \in StoreConns : MemDisconnect(c) /\ NoHistory /\ NoScene /\ NoMedia /\ NoRoster /\ NoFallback

SpecDm == Init /\ [][NextDm]_vars

\* ------------------------------------ client scene (game/OfficeScene.ts)
MAP_W == 40
MAP_H == 32

\* cells are <<row, column>>, as in set(r, c, v)
Rect(r1, r2, c1, c2) == {<<r, c>> : r \in r1..r2, c \in c1..c2}
hwall(r, c1, c2) == Rect(r, r, c1, c2)
vwall(r1, r2, c) == Rect(r1, r2, c, c)

\* buildMap: the wall cells (windows and corners lie on them)
WallCells ==
    hwall(1, 1, MAP_W - 2) \cup hwall(MAP_H - 2, 1, MAP_W - 2)
    \cup vwall(1, MAP_H - 2, 1) \cup vwall(1, MAP_H - 2, MAP_W - 2)
    \cup hwall(9, 2, 13) \cup vwall(2, 8, 13)
    \cup hwall(11, 27, 38) \cup vwall(2, 10, 27)
    \cup hwall(20, 27, 38) \cup hwall(30, 27, 38) \cup vwall(21, 29, 27)
    \cup vwall(11, 19, 14)
\* buildMap: the cells set to DOOR after the walls
DoorCells == {<<9, 7>>, <<9, 8>>, <<11, 32>>, <<11, 33>>, <<21, 29>>, <<22, 29>>}
\* buildMap: TV, couch, whiteboards, tables, desks and bookshelves
FurnitureCells ==
    {<<4, 3>>, <<4, 4>>}
    \cup Rect(6, 6, 5, 7) \cup Rect(6, 6, 9, 11)
    \cup Rect(2, 2, 30, 32) \cup {<<21, 35>>, <<21, 36>>}
    \cup Rect(5, 6, 29, 33)
    \cup Rect(24, 25, 29, 32)
    \cup {<<r, c + d>> : r \in {13, 16}, c \in {4, 7, 10, 15, 18, 21, 24}, d \in {0, 1}}
    \cup {<<r, c + d>> : r \in {22, 25}, c \in {4, 8, 12, 16, 20}, d \in {0, 1, 2}}
    \cup {<<2, c>> : c \in {15, 17, 19, 21, 23, 25}}
\* the cells whose object is in SOLID_OBJECTS (doors, chairs and plants are not)
SolidCells == (WallCells \ DoorCells) \cup FurnitureCells

isSolid(tileX, tileY) ==
    \/ tileX < 0 \/ tileY < 0 \/ tileX >= MAP_W \/ tileY >= MAP_H
    \/ <<tileY, tileX>> \in SolidCells
\* floorMap[ny]?.[nx] === T.OUTER
FloorOuter(tileX, tileY) ==
    /\ tileX \in 0..(MAP_W - 1) /\ tileY \in 0..(MAP_H - 1)
    /\ (tileY = 0 \/ tileY = MAP_H - 1 \/ tileX = 0 \/ tileX = MAP_W - 1)

\* getMeetingZone(...)?.roomId ?? null
getMeetingZone(tileX, tileY) ==
    IF tileX >= 28 /\ tileX <= 37 /\ tileY >= 2 /\ tileY <= 10 THEN "room1"
    ELSE IF tileX >= 28 /\ tileX <= 37 /\ tileY >= 21 /\ tileY <= 29 THEN "room2"
    ELSE "null"

\* (mutant) every zone check reports a change
ZoneChanged_Always(zoneId, last) == TRUE
\* zoneId !== this.lastZoneId
ZoneChanged(zoneId, last) == zoneId # last

\* update(): one tick past MOVE_DELAY with the given keys down
SceneUpdate(up, down, left, right) ==
    /\ LET dy == IF down THEN 1 ELSE IF up THEN -1 ELSE 0
           dx == IF right THEN 1 ELSE IF left THEN -1 ELSE 0
           nx == selfTileX + dx
           ny == selfTileY + dy
           free == ~isSolid(nx, ny) /\ ~FloorOuter(nx, ny)
       IN  IF dx = 0 /\ dy = 0
           THEN /\ zoneOut' = <<>>
                /\ UNCHANGED <<selfTileX, selfTileY, lastZoneId, detected, lastEvent>>
           ELSE /\ selfTileX' = (IF free THEN nx ELSE selfTileX)
                /\ selfTileY' = (IF free THEN ny ELSE selfTileY)
                /\ LET zoneId == getMeetingZone(selfTileX', selfTileY')
                   IN  /\ detected' = zoneId
                       /\ IF ZoneChanged(zoneId, lastZoneId)
                          THEN /\ lastZoneId' = zoneId
                               /\ zoneOut' = <<zoneId>>
                               /\ lastEvent' = zoneId
                          ELSE /\ zoneOut' = <<>>
                               /\ UNCHANGED <<lastZoneId, lastEvent>>
    /\ UNCHANGED <<teleported, serverVars, mediaVars, others>>

\* the start-up call officeScene.teleportSelf(8, 15, "down") of pages/Office.tsx
teleportSelf(tileX, tileY) ==
    /\ ~teleported
    /\ teleported' = TRUE
    /\ selfTileX' = tileX
    /\ selfTileY' = tileY
    /\ zoneOut' = <<>>
    /\ UNCHANGED <<lastZoneId, detected, lastEvent, serverVars, mediaVars, others>>

NextScene ==
    \/ \E up, down, left, right \in BOOLEAN : SceneUpdate(up, down, left, right)
    \/ teleportSelf(8, 15)

SpecScene == Init /\ [][NextScene]_vars

\* well-formed and malformed payloads for socket.ts: a spaceId that is not a
\* string, x and z that are not numbers, a direction that is not a string;
\* for leave_space, a spaceId that is the number 5
Malformed(p) == ~p.spaceId.isStr \/ ~p.x.isNum \/ ~p.z.isNum \/ ~p.direction.isStr
MalJoinPayloads ==
    { [userId |-> Spoof, spaceId |-> s, displayName |-> Text(Name1), x |-> x, y |-> Num(0),
       z |-> x, direction |-> Str("down"), avatar |-> "none"] :
         s \in {Str("A"), NotStr}, x \in {Num(2), NotNum} }
MalMovePayloads ==
    { [userId |-> Spoof, spaceId |-> s, x |-> x, y |-> Num(0), z |-> x, direction |-> d] :
         s \in {Str("A"), NotStr}, x \in {Num(1), NotNum}, d \in {Str("right"), NotStr} }
MalLeavePayloads == {Undefined, "A", "5"}

NextMalformed ==
    \/ \E c \in StoreConns : \E t \in ClientTokens(c) : Connect(c, t) /\ NoHistory /\ NoScene /\ NoMedia /\ NoRoster /\ NoFallback
    \/ \E c \in StoreConns, p \in MalJoinPayloads : MemJoinSpace(c, p) /\ NoHistory /\ NoScene /\ NoMedia /\ NoRoster /\ NoFallback
    \/ \E c \in StoreConns, s \in MalLeavePayloads : MemLeaveSpace(c, s) /\ NoHistory /\ NoScene /\ NoMedia /\ NoRoster /\ NoFallback
    \/ \E c \in StoreConns, p \in MalMovePayloads : MemMove(c, p) /\ NoHistory /\ NoScene /\ NoMedia /\ NoRoster /\ NoFallback
    \/ \E c \in StoreConns : MemDisconnect(c) /\ NoHistory /\ NoScene /\ NoMedia /\ NoRoster /\ NoFallback

SpecMalformed == Init /\ [][NextMalformed]_vars

\* socket.ts with positions inside and outside the floor (tenths of a unit:
\* 30.0 and -30.0 lie outside [-17.5, 17.5])
ClampJoinPayloads ==
    { [userId |-> Spoof, spaceId |-> Str("A"), displayName |-> Text(Name1), x |-> Num(x),
       y |-> Num(0), z |-> Num(z), direction |-> Str("down"), avatar |-> "none"] :
         x \in {0, 300}, z \in {0, -300} }
ClampMovePayloads ==
    { [userId |-> Spoof, spaceId |-> Str("A"), x |-> Num(x), y |-> Num(0), z |-> Num(z),
       direction |-> Str("right")] :
         x \in {10, 300}, z \in {-10, -300} }

NextClamp ==
    \/ \E c \in StoreConns : \E t \in ClientTokens(c) : Connect(c, t) /\ NoHistory /\ NoScene /\ NoMedia /\ NoRoster /\ NoFallback
    \/ \E c \in StoreConns, p \in ClampJoinPayloads : MemJoinSpace(c, p) /\ NoHistory /\ NoScene /\ NoMedia /\ NoRoster /\ NoFallback
    \/ \E c \in StoreConns, p \in ClampMovePayloads : MemMove(c, p) /\ NoHistory /\ NoScene /\ NoMedia /\ NoRoster /\ NoFallback
    \/ \E c \in StoreConns : MemDisconnect(c) /\ NoHistory /\ NoScene /\ NoMedia /\ NoRoster /\ NoFallback

SpecClamp == Init /\ [][NextClamp]_vars

\* moves of connections that have joined space A, with up to MaxMoves
\* handlers suspended at a time, recording the order of sends and broadcasts
OrderJoinPayloads == {p \in StoreJoinPayloads : p.spaceId = Str("A")}
OrderMovePayloads ==
    { [userId |-> Spoof, spaceId |-> Str("A"), x |-> Num(x), y |-> Num(0), z |-> Num(0),
       direction |-> Str("right")] : x \in {10, 20} }
\* the client moves once its join has been answered, and not after it has
\* sent MaxMoves moves
MayMove(c) ==
    /\ currentSpaceId[c] = "A"
    /\ c \in Members(presence, "A")
    /\ Len(moveLog[c].sent) < MaxMoves
    /\ Len(inflight) < MaxMoves

NextOrder ==
    \/ \E c \in StoreConns : Connect(c, UserOf(c)) /\ MoveHistory /\ NoScene /\ NoMedia /\ NoRoster /\ NoFallback
    \/ \E c \in StoreConns, p \in OrderJoinPayloads :
          currentSpaceId[c] = Undefined /\ StoreJoinSpace(c, p) /\ MoveHistory /\ NoScene /\ NoMedia /\ NoRoster
    \/ StoreJoinSet /\ MoveHistory /\ NoScene /\ NoMedia /\ NoRoster
    \/ StoreJoinList /\ MoveHistory /\ NoScene /\ NoMedia /\ NoRoster
    \/ \E c \in StoreConns, p \in OrderMovePayloads :
          MayMove(c) /\ StoreMoveStart(c, p) /\ MoveHistory /\ NoScene /\ NoMedia /\ NoRoster
    \/ StoreMoveGot /\ MoveHistory /\ NoScene /\ NoMedia /\ NoRoster
    \/ StoreMoveUpdated /\ MoveHistory /\ NoScene /\ NoMedia /\ NoRoster

SpecOrder == Init /\ [][NextOrder]_vars

\* join_dm and leave_dm with the names a client can send: user ids (its own
\* included) and crafted strings that contain the separator
DmNames == {Str(o) : o \in {"u1", "u2", "u3", "u1_u1", "u1_u2", "u2_u3"}} \cup {NotStr}

NextDmJoin ==
    \/ \E c \in StoreConns : \E t \in ClientTokens(c) : Connect(c, t) /\ NoHistory /\ NoScene /\ NoMedia /\ NoRoster /\ NoFallback
    \/ \E c \in StoreConns, o \in DmNames : JoinDm(c, o) /\ NoHistory /\ NoScene /\ NoMedia /\ NoRoster /\ NoFallback
    \/ \E c \in StoreConns, o \in DmNames : LeaveDm(c, o) /\ NoHistory /\ NoScene /\ NoMedia /\ NoRoster /\ NoFallback
    \/ \E c \in StoreConns : MemDisconnect(c) /\ NoHistory /\ NoScene /\ NoMedia /\ NoRoster /\ NoFallback

SpecDmJoin == Init /\ [][NextDmJoin]_vars

\* ------------------------------------------- routes/media.ts: POST /rooms
roomKey(spaceId, roomId) == spaceId \o ":" \o roomId
\* meetingCache.get(key): the meetingId, or 0 for undefined
NoMeeting == 0
\* meetingCache.set(key, meetingId)
CacheSet(cache, key, meetingId) ==
    [k \in DOMAIN cache \cup {key} |-> IF k = key THEN meetingId ELSE cache[k]]
CacheGet(cache, key) == IF key \in DOMAIN cache THEN cache[key] ELSE NoMeeting

\* ensureSpaceMember(userId, spaceId)
ensureSpaceMember(u, spaceId) ==
    /\ FindSpace(spaceId) # NoSpace
    /\ IsOrgMember(members, u, FindSpace(spaceId).organizationId)

\* a suspended handler of POST /rooms
MediaWaiting(n, pc, u, spaceId, roomId, meetingId) ==
    [n |-> n, pc |-> pc, u |-> u, spaceId |-> spaceId, roomId |-> roomId,
     key |-> roomKey(spaceId, roomId), meetingId |-> meetingId]
Response(code, key, meetingId) == [code |-> code, key |-> key, meetingId |-> meetingId]
MediaSlot == CHOOSE n \in 1..MaxMedia : \A h \in mediaq : h.n # n
MediaFrame == UNCHANGED <<serverVars, sceneVars, others>>

\* router.post("/rooms") of an authenticated user, up to the await of
\* ensureSpaceMember (the video provider is configured)
MediaPost(u, body) ==
    /\ Cardinality(mediaq) < MaxMedia
    /\ IF body.spaceId = "" \/ body.roomId = ""
       THEN /\ mediaRes' = mediaRes \cup {Response(400, "", NoMeeting)}
            /\ UNCHANGED mediaq
       ELSE /\ mediaq' = mediaq \cup
                  {MediaWaiting(MediaSlot, "member", u, body.spaceId, body.roomId, NoMeeting)}
            /\ UNCHANGED mediaRes
    /\ UNCHANGED <<meetingCache, dyteMeetings>>
    /\ MediaFrame

\* resumed after ensureSpaceMember, up to the await of prisma.user.findUnique
MediaMemberChecked(h) ==
    /\ h \in mediaq
    /\ h.pc = "member"
    /\ IF ~ensureSpaceMember(h.u, h.spaceId)
       THEN /\ mediaq' = mediaq \ {h}
            /\ mediaRes' = mediaRes \cup {Response(403, "", NoMeeting)}
       ELSE /\ mediaq' = (mediaq \ {h}) \cup {[h EXCEPT !.pc = "user"]}
            /\ UNCHANGED mediaRes
    /\ UNCHANGED <<meetingCache, dyteMeetings>>
    /\ MediaFrame

\* resumed after the user lookup: the cache lookup, then the await of the
\* fetch that creates the meeting (cache miss) or adds the participant
MediaUserFound(h) ==
    /\ h \in mediaq
    /\ h.pc = "user"
    /\ LET meetingId == CacheGet(meetingCache, h.key)
       IN  mediaq' = (mediaq \ {h}) \cup
              {IF meetingId = NoMeeting
               THEN [h EXCEPT !.pc = "create"]
               ELSE [h EXCEPT !.pc = "participant", !.meetingId = meetingId]}
    /\ UNCHANGED <<meetingCache, dyteMeetings, mediaRes>>
    /\ MediaFrame

\* resumed after POST /meetings: the provider created a meeting and the
\* handler caches its id, or the provider refused (502)
MediaMeetingCreated(h, ok) ==
    /\ h \in mediaq
    /\ h.pc = "create"
    /\ IF ok
       THEN LET meetingId == Len(dyteMeetings) + 1
            IN  /\ dyteMeetings' = Append(dyteMeetings, h.key)
                /\ meetingCache' = CacheSet(meetingCache, h.key, meetingId)
                /\ mediaq' = (mediaq \ {h}) \cup
                       {[h EXCEPT !.pc = "participant", !.meetingId = meetingId]}
                /\ UNCHANGED mediaRes
       ELSE /\ mediaq' = mediaq \ {h}
            /\ mediaRes' = mediaRes \cup {Response(502, "", NoMeeting)}
            /\ UNCHANGED <<meetingCache, dyteMeetings>>
    /\ MediaFrame

\* resumed after POST /meetings/:id/participants: { token, meetingId }, or 502
MediaParticipantAdded(h, ok) ==
    /\ h \in mediaq
    /\ h.pc = "participant"
    /\ mediaq' = mediaq \ {h}
    /\ mediaRes' = mediaRes \cup
          {IF ok THEN Response(200, h.key, h.meetingId) ELSE Response(502, "", NoMeeting)}
    /\ UNCHANGED <<meetingCache, dyteMeetings>>
    /\ MediaFrame

\* requests for two meeting rooms of space A, for a space that is in no row,
\* and without a roomId
MediaBodies ==
    { [spaceId |-> "A", roomId |-> r] : r \in {"room1", "room2", ""} }
    \cup { [spaceId |-> "X", roomId |-> "room1"] }

NextMedia ==
    \/ \E u \in Users, b \in MediaBodies : MediaPost(u, b)
    \/ \E h \in mediaq : MediaMemberChecked(h)
    \/ \E h \in mediaq : MediaUserFound(h)
    \/ \E h \in mediaq, ok \in BOOLEAN : MediaMeetingCreated(h, ok)
    \/ \E h \in mediaq, ok \in BOOLEAN : MediaParticipantAdded(h, ok)

SpecMedia == Init /\ [][NextMedia]_vars

\* --------------------------- client roster (frontend pages/Office.tsx)
\* the listeners of one client applied to one event it receives:
\* space_state replaces the map (own socket id left out), user_joined adds the
\* sender's socket id (own id ignored), user_left deletes it
OnEvent(c, roster, e) ==
    IF c \notin e.to THEN roster
    ELSE IF e.ev = "space_state" THEN DOMAIN e.body \ {c}
    ELSE IF e.ev = "user_joined" THEN (IF e.from = c THEN roster ELSE roster \cup {e.from})
    ELSE IF e.ev = "user_left" THEN roster \ {e.from}
    ELSE roster
RECURSIVE OnEvents(_, _, _)
OnEvents(c, roster, o) ==
    IF o = <<>> THEN roster ELSE OnEvents(c, OnEvent(c, roster, Head(o)), Tail(o))
\* every client handles the events of the step, in the order they were emitted
Roster == others' = [c \in Conns |-> OnEvents(c, others[c], out')]

\* the presence-store generation seen from the client of c1, which joins
\* space A once and stays, while c2 joins, leaves and disconnects
RosterJoinPayloads == {p \in StoreJoinPayloads : p.spaceId \in {Str("A"), Str("B")}}
NextRoster ==
    \/ \E c \in StoreConns : Connect(c, UserOf(c)) /\ NoHistory /\ NoScene /\ NoMedia /\ Roster /\ NoFallback
    \/ \E p \in RosterJoinPayloads :
          /\ p.spaceId = Str("A") /\ rooms["c1"] = {}
          /\ StoreJoinSpace("c1", p) /\ NoHistory /\ NoScene /\ NoMedia /\ Roster
    \/ \E p \in RosterJoinPayloads : StoreJoinSpace("c2", p) /\ NoHistory /\ NoScene /\ NoMedia /\ Roster
    \/ StoreJoinSet /\ NoHistory /\ NoScene /\ NoMedia /\ Roster
    \/ StoreJoinList /\ NoHistory /\ NoScene /\ NoMedia /\ Roster
    \/ \E s \in LeavePayloads : StoreLeaveSpace("c2", s) /\ NoHistory /\ NoScene /\ NoMedia /\ Roster
    \/ StoreLeaveRemoved /\ NoHistory /\ NoScene /\ NoMedia /\ Roster
    \/ StoreDisconnect("c2") /\ NoHistory /\ NoScene /\ NoMedia /\ Roster
    \/ StoreDisconnectRemoved /\ NoHistory /\ NoScene /\ NoMedia /\ Roster

SpecRoster == Init /\ [][NextRoster]_vars

\* ================================================================ claims
\* the spaces in which a connection holds a presence record
SpacesOf(pres, c) == {s \in SpaceIds : c \in Members(pres, s)}
\* the strings a client can put where a user id is expected
Ids == {IdOrder[i] : i \in DOMAIN IdOrder}
\* no handler of the connection is suspended
Quiet(c) == \A i \in DOMAIN inflight : inflight[i].c # c

\* C1: in every reachable state each connection has a presence record in at
\* most one space (after join_space(S1) then join_space(S2), S1 no longer
\* lists the connection and S2 does).
C1_OneSpacePerConnection ==
    \A c \in Conns : Cardinality(SpacesOf(presence, c)) <= 1

\* C2: leaving twice (leave_space twice, or leave_space then disconnect)
\* delivers user_left for the connection to the members of the space at most
\* once per join.
C2_LeftAtMostOnce ==
    \A c \in Conns : \A s \in SpaceIds : leftCount[c][s] <= 1

\* C3: when a disconnect started while a leave_space handler of the same
\* connection was suspended at its awaited removal, then once both have
\* finished the presence record is gone and user_left was delivered once,
\* not twice.
C3_RaceLeftOnce ==
    \A c \in Conns :
        (raced[c] # Undefined /\ Quiet(c))
            => /\ c \notin Members(presence, raced[c])
               /\ leftCount[c][raced[c]] <= 1

\* C4: once a connection is closed and none of its handlers is in flight, no
\* presence record keyed by it remains in any space.
C4_NoPresenceAfterDisconnect ==
    \A c \in Conns :
        (status[c] = "closed" /\ Quiet(c)) => SpacesOf(presence, c) = {}

\* C5: a user_moved caused by a connection that is a member of one space is
\* never delivered to a connection that is a member of another space only.
C5_NoCrossSpaceMove ==
    \A i \in DOMAIN out :
        out[i].ev = "user_moved" =>
            \A d \in out[i].to :
                \/ SpacesOf(presence, out[i].from) = {}
                \/ SpacesOf(presence, d) = {}
                \/ SpacesOf(presence, out[i].from) \cap SpacesOf(presence, d) # {}

\* C6: an accepted move by C in S is delivered to exactly the other
\* connections that have presence in S, and not to C.
C6_MoveReachesOthers ==
    (step.op = "move" /\ step.res = "ok")
        => /\ Len(out) = 1
           /\ out[1].ev = "user_moved"
           /\ out[1].to = Members(presence, step.space) \ {step.c}

\* C7: on an accepted join_space(S) by C, space_state goes to C only and
\* lists exactly the presence records of S, and user_joined with C's record
\* goes to every other member of S and not to C.
C7_JoinAnnounce ==
    (step.op = "join_space" /\ step.res = "ok")
        => /\ Len(out) = 2
           /\ out[1].ev = "space_state"
           /\ out[1].to = {step.c}
           /\ out[1].body = presence[step.space]
           /\ out[2].ev = "user_joined"
           /\ out[2].to = Members(presence, step.space) \ {step.c}
           /\ out[2].body = presence[step.space][step.c]

\* C8: join_space(S2) by a connection that is in S1 # S2 first tears S1 down:
\* its presence in S1 is removed, it leaves S1's room, and user_left for S1 is
\* emitted before user_joined for S2.
C8_JoinTearsDownPrevious ==
    [][\A c \in Conns : \A p \in JoinPayloads :
        (/\ MemJoinSpace(c, p)
         /\ ValidSpaceId(p)
         /\ currentSpaceId[c] \notin {Undefined, p.spaceId.s})
            => /\ c \notin Members(presence', currentSpaceId[c])
               /\ SpaceRoom(currentSpaceId[c]) \notin rooms'[c]
               /\ \E i, j \in DOMAIN out' :
                    /\ i < j
                    /\ out'[i].ev = "user_left"
                    /\ out'[i].space = currentSpaceId[c]
                    /\ out'[j].ev = "user_joined"]_vars

\* C9: a move naming a space the connection has no presence in is dropped:
\* the presence map (records and space entries) is unchanged and no
\* user_moved is delivered.
C9_StaleMoveDropped ==
    [][\A c \in Conns : \A p \in MovePayloads :
        (/\ MemMove(c, p)
         /\ ValidSpaceId(p)
         /\ c \notin Members(presence, p.spaceId.s))
            => /\ presence' = presence
               /\ \A i \in DOMAIN out' : out'[i].ev = "user_moved" => out'[i].to = {}]_vars

\* a SPACE message whose sender belongs to the organization owning the space
AuthorizedSpaceMessage(channelId, sender) ==
    /\ channelId \in DOMAIN SpaceOrg
    /\ sender \in members[SpaceOrg[channelId]]

\* C10: a SPACE chat_message whose sender is not a member of the organization
\* owning the space, or whose space does not exist, is never persisted and
\* never broadcast: every persisted row and every broadcast of channel type
\* SPACE has an authorized sender.
C10_UnauthorizedChatDropped ==
    /\ \A i \in DOMAIN messages :
          messages[i].channelType = "SPACE"
              => AuthorizedSpaceMessage(messages[i].channelId, messages[i].senderUserId)
    /\ \A i \in DOMAIN out :
          (out[i].ev = "chat_message" /\ out[i].body.channelType = "SPACE")
              => AuthorizedSpaceMessage(out[i].body.channelId, out[i].body.senderUserId)

\* C10 witness: the handler of a sender outside the organization reached the
\* membership check and ended there, with the sender's connection subscribed
\* to nothing persisted.
C10_Witness ==
    /\ step.op = "chat_message"
    /\ step.res = "unauthorized"
    /\ step.space = "A"
    /\ userId[step.c] \notin members["o1"]
    /\ messages = <<>>
    /\ out = <<>>

\* C11: every persisted DM row and every DM broadcast lands in the channel
\* dmChannelId(sender, r) of the bound sender and some recipient r, the
\* broadcast goes to exactly the subscribers of that channel's room, and the
\* sender of a broadcast is the user bound to the emitting connection.
C11_DmChannelRecomputed ==
    /\ \A i \in DOMAIN messages :
          messages[i].channelType = "DM"
              => \E r \in Ids :
                    messages[i].channelId = dmChannelId(messages[i].senderUserId, r)
    /\ \A i \in DOMAIN out :
          (out[i].ev = "chat_message" /\ out[i].body.channelType = "DM")
              => /\ out[i].body.senderUserId = userId[out[i].from]
                 /\ \E r \in Ids :
                       /\ out[i].body.channelId = dmChannelId(userId[out[i].from], r)
                       /\ out[i].to = ToRoom(rooms, DmRoom(out[i].body.channelId))

\* C11 witness: a client that supplied the canonical id of the pair as channel
\* id had its message persisted and broadcast in the recomputed channel.
C11_Witness ==
    /\ step.op = "chat_message"
    /\ step.res = "emitted"
    /\ out[1].body.channelType = "DM"
    /\ out[1].body.channelId = dmChannelId(userId[step.c], "u1_u2")
    /\ \E i \in DOMAIN messages : messages[i].channelId = out[1].body.channelId

\* C12: every chat_message a step broadcasts is a row the database holds
\* (same id, timestamp, channel, sender and content); and a failed query of
\* the handler broadcasts nothing, persists nothing and leaves every
\* connection as it was.
C12_PersistedBeforeBroadcast ==
    [][/\ \A i \in DOMAIN out' :
            out'[i].ev = "chat_message" =>
                \E k \in DOMAIN messages' :
                    /\ messages'[k].id = out'[i].body.id
                    /\ messages'[k].createdAt = out'[i].body.createdAt
                    /\ messages'[k].channelType = out'[i].body.channelType
                    /\ messages'[k].channelId = out'[i].body.channelId
                    /\ messages'[k].senderUserId = out'[i].body.senderUserId
                    /\ messages'[k].content = out'[i].body.content
       /\ \A h \in chatq :
            ChatDbError(h) => (out' = <<>> /\ messages' = messages /\ status' = status)]_vars

\* C12 witness: a persisted message was broadcast to a subscriber other than
\* the sender's connection.
C12_Witness ==
    /\ step.op = "chat_message"
    /\ step.res = "emitted"
    /\ out[1].to \ {step.c} # {}
    /\ out[1].body.id \in DOMAIN messages
    /\ messages[out[1].body.id].content = out[1].body.content

\* the trimmed input, cut to its first 2000 characters
TrimmedCut(text) ==
    LET t == Trim(text)
    IN  [i \in 1..(IF Len(t) > 2000 THEN 2000 ELSE Len(t)) |-> t[i]]

\* C13: a chat_message whose content is non-empty after trimming (and whose
\* channel fields are valid) is not refused for its length, and the row it
\* persists and the event it broadcasts carry the trimmed input cut to its
\* first 2000 characters.
C13_ContentClipped ==
    [][/\ \A p \in ClipPayloads :
            (ChatMessage("c1", p) /\ Trim(p.content.s) # <<>>)
                => \E h \in chatq' \ chatq : h.content = TrimmedCut(p.content.s)
       /\ \A h \in chatq :
            ChatCreate(h) =>
                messages'[Len(messages')].content = TrimmedCut(h.payload.content.s)
       /\ \A h \in chatq :
            ChatBroadcast(h) =>
                /\ out'[1].body.content = TrimmedCut(h.payload.content.s)
                /\ \E k \in DOMAIN messages :
                      /\ messages[k].id = out'[1].body.id
                      /\ messages[k].content = out'[1].body.content]_vars

\* C13 witness: a content of 5000 characters was persisted and broadcast as
\* the first 2000 of its trimmed form.
C13_Witness ==
    /\ step.op = "chat_message"
    /\ step.res = "emitted"
    /\ out[1].body.content = Fill(1999, "a") \o <<" ">>
    /\ \E k \in DOMAIN messages : messages[k].content = out[1].body.content

\* C14: a connection whose token was missing or refused has no user bound, is
\* in no room, holds no presence record and no current space, has no handler
\* running or suspended, is the sender of no persisted row, and no emitted
\* event comes from it or goes to it.
C14_RejectedDoesNothing ==
    \A c \in Conns :
        status[c] = "rejected" =>
            /\ userId[c] = NoUser
            /\ rooms[c] = {}
            /\ SpacesOf(presence, c) = {}
            /\ currentSpaceId[c] = Undefined
            /\ \A h \in chatq : h.c # c
            /\ \A i \in DOMAIN inflight : inflight[i].c # c
            /\ \A i \in DOMAIN messages : messages[i].senderUserId # userId[c]
            /\ \A i \in DOMAIN out : out[i].from # c /\ c \notin out[i].to
            /\ (step.c = c => step.op \in {"init", "connection"})

\* C14 witness: one connection was refused at the handshake while another
\* one, authenticated, has presence and a persisted message.
C14_Witness ==
    \E c \in Conns :
        /\ status[c] = "rejected"
        /\ \E d \in Conns \ {c} : SpacesOf(presence, d) # {} /\ rooms[d] # {}
        /\ messages # <<>>

\* C15: a bound userId never changes, and every user_joined, user_left,
\* user_moved and chat_message a step emits, and every row it persists, carries
\* the userId bound to the connection it is produced for, whatever userId the
\* payload names.
C15_BoundUserId ==
    [][/\ \A c \in Conns : userId[c] # NoUser => userId'[c] = userId[c]
       /\ \A i \in DOMAIN out' :
            LET e == out'[i]
            IN  /\ e.ev \in {"user_joined", "user_moved"} => e.body.userId = userId[e.from]
                /\ e.ev = "user_left" => e.body = userId[e.from]
                /\ e.ev = "chat_message" => e.body.senderUserId = userId[e.from]
                /\ userId[e.from] \in Users
       /\ \A h \in chatq :
            ChatCreate(h) => messages'[Len(messages')].senderUserId = userId[h.c]]_vars

\* C15 witness: a move whose payload names another user reached a recipient
\* with the sender's bound userId.
C15_Witness ==
    /\ step.op = "move"
    /\ step.c = "c1"
    /\ Spoof # userId["c1"]
    /\ out[1].to # {}
    /\ out[1].body.userId = userId["c1"]

\* C16: dmChannelId gives the same channel for a pair of ids in either order,
\* for the user ids bound to connections and for every id a client can name.
C16_DmChannelSymmetric ==
    LET ids == Ids \cup ({userId[c] : c \in Conns} \ {NoUser})
    IN  \A a \in ids : \A b \in ids : dmChannelId(a, b) = dmChannelId(b, a)

\* C16 witness: the connections of two users each subscribed naming the other
\* and are in one and the same DM room.
C16_Witness ==
    /\ userId["c1"] = "u1" /\ userId["c2"] = "u2"
    /\ step.op = "join_dm" /\ step.res = "ok"
    /\ DmRoom(dmChannelId(userId["c1"], userId["c2"])) \in rooms["c1"]
    /\ DmRoom(dmChannelId(userId["c2"], userId["c1"])) \in rooms["c2"]
    /\ rooms["c1"] = rooms["c2"]

\* C17: a tick that moves (or tries to move) the player calls onZoneChange
\* exactly when the zone now detected differs from the zone detected by the
\* previous check; the call carries the zone now detected, which is never the
\* zone of the previous call.
C17_ZoneEventOnChange ==
    [][\A up, down, left, right \in BOOLEAN :
        (SceneUpdate(up, down, left, right) /\ (up \/ down \/ left \/ right))
            => LET zoneId == getMeetingZone(selfTileX', selfTileY')
               IN  /\ (zoneOut' # <<>>) <=> (zoneId # detected)
                   /\ zoneOut' # <<>> => (zoneOut' = <<zoneId>> /\ zoneId # lastEvent)
                   /\ zoneOut' = <<>> => lastEvent' = lastEvent]_vars

\* C17 witness: the player walked from outside into room1 and on to its far
\* corner; the last call was the one for room1 and the last tick made none.
C17_Witness ==
    /\ selfTileX = 36 /\ selfTileY = 3
    /\ getMeetingZone(selfTileX, selfTileY) = "room1"
    /\ lastEvent = "room1"
    /\ zoneOut = <<>>

\* C18: with the store unreachable, a completed join_space of a connection
\* whose record is in the process-local map answers with a space_state roster
\* that lists the locally stored members of the space, and a move of a
\* connection that has a local record in the space is not dropped.
C18_FallbackServes ==
    /\ (/\ ~redisUp
        /\ step.op = "join_space" /\ step.res = "emitted"
        /\ step.c \in Members(IN_MEMORY, step.space))
            => out[1].body = IN_MEMORY[step.space]
    /\ (/\ ~redisUp
        /\ step.op = "move" /\ step.res = "failed")
            => step.c \notin Members(IN_MEMORY, step.space)

\* C19: a join_space or move whose payload has a spaceId that is not a
\* string, an x or z that is not a number or a direction that is not a string,
\* and a leave_space whose spaceId is not a string, changes neither presence
\* nor rooms nor the connection's current space nor any connection's status,
\* and emits nothing.
C19_MalformedDropped ==
    [][\A c \in Conns :
        (\/ \E p \in MalJoinPayloads : MemJoinSpace(c, p) /\ Malformed(p)
         \/ \E p \in MalMovePayloads : MemMove(c, p) /\ Malformed(p)
         \/ MemLeaveSpace(c, "5"))
            => /\ UNCHANGED <<presence, rooms, currentSpaceId, status>>
               /\ out' = <<>>]_vars

\* C20: a step of one connection (join_space, move, leave_space, disconnect)
\* neither removes nor alters the presence record of any other connection,
\* the other connections of the same user included.
C20_PresencePerConnection ==
    [][\A d \in Conns : \A s \in SpaceIds :
        (d # step'.c /\ d \in Members(presence, s))
            => /\ d \in Members(presence', s)
               /\ presence'[s][d] = presence[s][d]]_vars

\* C20 witness: two connections of one user are in the same space, each with
\* its own record; one of them has just moved and the other's record still
\* holds the position it joined with.
C20_Witness ==
    /\ userId["c1"] = userId["c3"]
    /\ {"c1", "c3"} \subseteq Members(presence, "A")
    /\ step.op = "move" /\ step.c = "c3" /\ step.res = "ok"
    /\ presence["A"]["c3"].x = 1
    /\ presence["A"]["c1"].x = 0

\* C21: a position update interleaved with a remove of the same (space,
\* connection) key acts as one atomic step: when the update's write runs after
\* its read found the record and a remove has since taken the record away, the
\* write does not bring the record back.
C21_RemoveNotUndone ==
    [][(/\ StoreMoveGot
        /\ Head(inflight).res \notin {Null, Failed}
        /\ Head(inflight).c \notin Members(presence, Head(inflight).spaceId))
            => Head(inflight).c \notin Members(presence', Head(inflight).spaceId)]_vars

\* C22: a leave_space naming a space the connection is not a member of (no
\* presence record there, not in its room) is a no-op: presence, the rooms and
\* the current-space pointers stay as they were and nothing is delivered.
C22_LeaveNonMemberNoOp ==
    [][\A c \in Conns : \A s \in SpaceIds :
        (/\ MemLeaveSpace(c, s)
         /\ c \notin Members(presence, s)
         /\ SpaceRoom(s) \notin rooms[c])
            => /\ UNCHANGED <<presence, rooms, currentSpaceId>>
               /\ \A i \in DOMAIN out' : out'[i].to = {}]_vars

\* a coordinate within the floor bounds
OnFloor(v) == v >= -FLOOR_HALF /\ v <= FLOOR_HALF

\* C23: every stored presence position, and every position carried by a
\* user_joined or user_moved, has x and z within [-FLOOR_HALF, FLOOR_HALF], and
\* the position a member's user_joined or user_moved carries is the one stored
\* for it.
C23_PositionsClamped ==
    /\ \A s \in SpaceIds : \A c \in Members(presence, s) :
          OnFloor(presence[s][c].x) /\ OnFloor(presence[s][c].z)
    /\ \A i \in DOMAIN out :
          out[i].ev \in {"user_joined", "user_moved"}
              => /\ OnFloor(out[i].body.x) /\ OnFloor(out[i].body.z)
                 /\ out[i].from \in Members(presence, out[i].space)
                       => /\ presence[out[i].space][out[i].from].x = out[i].body.x
                          /\ presence[out[i].space][out[i].from].z = out[i].body.z

\* C24: the write of a position update finds the record of its key in the
\* store and replaces it by that record with only x, y, z and direction
\* changed, every other key staying as it was, and the update returns the
\* record; an update whose read found no record changes nothing and returns
\* the not-found signal.
C24_UpdateFrame ==
    [][StoreMoveGot =>
        LET h == Head(inflight)
        IN  IF h.res = Null
            THEN presence' = presence /\ step'.res = "notfound"
            ELSE /\ h.c \in Members(presence, h.spaceId)
                 /\ presence' = SpaceSet(presence, h.spaceId, h.c,
                        JSONstringify(Merge(JSONparse(presence[h.spaceId][h.c]), h.data)))
                 /\ step'.res = "await2"]_vars

\* the position and direction of a stored record
StoredUpdate(pres, spaceId, c) ==
    LET r == JSONparse(pres[spaceId][c])
    IN  [x |-> r.x, y |-> r.y, z |-> r.z, direction |-> r.direction]
IsPrefix(a, b) == Len(a) <= Len(b) /\ \A i \in DOMAIN a : a[i] = b[i]

\* C25: for each connection the user_moved events emitted so far carry, in
\* order, the updates of the first moves it sent; and once none of its
\* handlers is suspended, every move it sent has been broadcast and the stored
\* position is that of the last move sent.
C25_MovesInSendOrder ==
    \A c \in Conns :
        /\ IsPrefix(moveLog[c].emitted, moveLog[c].sent)
        /\ (Quiet(c) /\ moveLog[c].sent # <<>>)
              => /\ moveLog[c].emitted = moveLog[c].sent
                 /\ c \in Members(presence, "A")
                 /\ StoredUpdate(presence, "A", c)
                       = moveLog[c].sent[Len(moveLog[c].sent)]

\* C25 witness: a connection sent a second, different move while the handler
\* of its first was suspended; both were broadcast to the other member, in
\* that order, and the stored position is that of the second.
C25_Witness ==
    /\ step.op = "move" /\ step.res = "emitted" /\ step.c = "c1"
    /\ out[1].to = {"c2"}
    /\ Quiet("c1")
    /\ Len(moveLog["c1"].sent) = 2
    /\ moveLog["c1"].sent[1].x = 20 /\ moveLog["c1"].sent[2].x = 10
    /\ moveLog["c1"].emitted = moveLog["c1"].sent
    /\ JSONparse(presence["A"]["c1"]).x = 10

\* C26: when no handler is in flight, a connection has a presence record in a
\* space exactly when it is connected, is in the room of that space and its
\* current-space pointer names that space.
C26_PresenceRoomPointer ==
    inflight = <<>> =>
        \A c \in Conns : \A s \in SpaceIds :
            c \in Members(presence, s)
                <=> /\ status[c] = "connected"
                    /\ SpaceRoom(s) \in rooms[c]
                    /\ currentSpaceId[c] = s

\* C27: every DM room a connection is in has a channel id derived from the
\* connection's bound userId and some other id, and is not the room of the
\* channel of two other users.
C27_DmMembersOnly ==
    \A c \in Conns : \A r \in rooms[c] :
        /\ \E o \in Ids : r = DmRoom(dmChannelId(userId[c], o))
        /\ \A a \in UserIds \ {userId[c]} : \A b \in UserIds \ {userId[c]} :
              r # DmRoom(dmChannelId(a, b))

\* C27 witness: the connection of u1 named u3 and the crafted id "u2_u3"; it
\* is in the rooms derived from its own id and not in the room of u2 and u3,
\* which the connection of u2 is in.
C27_Witness ==
    /\ userId["c1"] = "u1" /\ userId["c2"] = "u2"
    /\ DmRoom("u1_u3") \in rooms["c1"]
    /\ DmRoom("u1_u2_u3") \in rooms["c1"]
    /\ DmRoom(dmChannelId("u2", "u3")) \in rooms["c2"]
    /\ DmRoom(dmChannelId("u2", "u3")) \notin rooms["c1"]

\* C28: two different unordered pairs of ids never get the same channel id:
\* when a connection is in the DM room of its bound id paired with an id o, and
\* a connection is in the DM room of its bound id paired with an id p, and the
\* two channel ids are equal, then the two pairs are the same pair.
C28_DmChannelInjective ==
    \A c \in Conns : \A d \in Conns : \A o \in Ids \ {userId[c]} : \A p \in Ids \ {userId[d]} :
        (/\ userId[c] # NoUser /\ userId[d] # NoUser
         /\ DmRoom(dmChannelId(userId[c], o)) \in rooms[c]
         /\ DmRoom(dmChannelId(userId[d], p)) \in rooms[d]
         /\ dmChannelId(userId[c], o) = dmChannelId(userId[d], p))
            => {userId[c], o} = {userId[d], p}

\* C29: all successful POST /media/rooms responses for a room key carry the
\* same meetingId, and the provider has created at most one meeting per room
\* key.
C29_OneMeetingPerRoom ==
    /\ \A a \in mediaRes : \A b \in mediaRes :
          (a.code = 200 /\ b.code = 200 /\ a.key = b.key) => a.meetingId = b.meetingId
    /\ \A i \in DOMAIN dyteMeetings : \A j \in DOMAIN dyteMeetings :
          dyteMeetings[i] = dyteMeetings[j] => i = j

\* C30: once no handler is in flight, the client of a connection that has
\* joined a space (it is connected, holds its record there and its join has
\* been answered) holds exactly the socket ids of the other connections that
\* have a presence record in that space.
C30_RosterConverges ==
    (/\ inflight = <<>>
     /\ status["c1"] = "connected"
     /\ currentSpaceId["c1"] = "A"
     /\ "c1" \in Members(presence, "A"))
        => others["c1"] = Members(presence, "A") \ {"c1"}

====
